---------------------------- MODULE Spec2Model ----------------------------
(***************************************************************************)
(* Model of the cosmos-watcher chain registry (internal/chain/registry.go) *)
(* and of the components that drive it: the read/write-locked chains map,  *)
(* the TTL cache of descriptors and upgrade records, the two upgrade       *)
(* sources and the bounded fan-out jobs.                                   *)
(*                                                                         *)
(* Chain names are sequences of tokens (a token is an indivisible piece of *)
(* a string such as "hub", "-", "1", "/", "."), so that the string         *)
(* functions of the registry are computed, not assumed.                    *)
(***************************************************************************)
EXTENDS Integers, Sequences, FiniteSets, Bags, TLC

(***************************************************************************)
(* Bounds of the model.                                                    *)
(***************************************************************************)
NumWorkers == 2
MaxCalls == 2

(***************************************************************************)
(* Program constants.                                                      *)
(***************************************************************************)
TTL == 5

Workers == 1..NumWorkers

(***************************************************************************)
(* Strings as token sequences.                                             *)
(***************************************************************************)

SetMax(S) == CHOOSE x \in S : \A y \in S : y <= x
SetMin(S) == CHOOSE x \in S : \A y \in S : x <= y

Contains(s, t) == \E i \in 1..Len(s) : s[i] = t

\* strings.LastIndex / strings.LastIndexAny, 1-based, 0 when absent
LastIndexAny(s, T) ==
    LET I == {i \in 1..Len(s) : s[i] \in T}
    IN  IF I = {} THEN 0 ELSE SetMax(I)

RECURSIVE Split(_)
\* strings.Split(s, "/")
Split(s) ==
    LET I == {i \in 1..Len(s) : s[i] = "/"}
    IN  IF I = {} THEN <<s>>
        ELSE LET i == SetMin(I)
             IN  <<SubSeq(s, 1, i - 1)>> \o Split(SubSeq(s, i + 1, Len(s)))

RECURSIVE TrimSet(_, _)
\* strings.Trim(s, cutset) for a cutset of tokens
TrimSet(s, T) ==
    IF s = <<>> THEN s
    ELSE IF s[1] \in T THEN TrimSet(Tail(s), T)
    ELSE IF s[Len(s)] \in T THEN TrimSet(SubSeq(s, 1, Len(s) - 1), T)
    ELSE s

HasSuffix(s, t) == Len(s) >= 1 /\ s[Len(s)] = t
TrimSuffix(s, t) == IF HasSuffix(s, t) THEN SubSeq(s, 1, Len(s) - 1) ELSE s

\* strconv.Atoi succeeds: a non-empty run of digits after an optional sign
AtoiOk(s) ==
    LET body == IF s # <<>> /\ s[1] \in {"+", "-"} THEN Tail(s) ELSE s
    IN  body # <<>> /\ \A i \in 1..Len(body) : body[i] \in {"0", "1"}


cleanChainName(name) ==
    LET parts == Split(name)
        good  == {i \in 1..Len(parts) :
                     /\ parts[i] # <<"chain", ".", "json">>
                     /\ parts[i] # <<"testnets">>
                     /\ parts[i] # <<>>
                     /\ parts[i] # <<"master">>
                     /\ ~Contains(parts[i], "github")}
        n1    == IF Contains(name, "/") /\ good # {}
                 THEN parts[SetMax(good)] ELSE name
        idx   == LastIndexAny(n1, {"."})
        n2    == IF idx # 0 THEN SubSeq(n1, 1, idx - 1) ELSE n1
    IN  TrimSet(TrimSet(n2, {" "}), {"/"})

(***************************************************************************)
(* Data shapes.                                                            *)
(***************************************************************************)
NameHub == <<"hub">>
NameHub1 == <<"hub", "-", "1">>
NameHubTestnet == <<"hub", "testnet">>
ApiNames == {NameHub, NameHub1, NameHubTestnet}
\* the names a caller may pass: a name of the API, or the empty string
CallNames == ApiNames \cup {<<>>}

\* zero values
NoInfo == [Name |-> <<>>, Network |-> ""]
NoUpgrade == [Name |-> <<>>, ChainName |-> <<>>, Height |-> 0, Version |-> <<>>,
              Time |-> 0, Estimated |-> FALSE, Network |-> "",
              Guide |-> "", Repo |-> ""]
NoDescEntry == [st |-> "absent", val |-> NoInfo, left |-> 0]
NoUpgEntry == [st |-> "absent", val |-> NoUpgrade, left |-> 0]
NoResult == [kind |-> "none", err |-> "", info |-> NoInfo, upg |-> NoUpgrade,
             keys |-> {}, list |-> <<>>]
NoLoc == [has |-> FALSE, val |-> NoInfo, base |-> <<>>, network |-> ""]
NoADoc == [Name |-> <<>>, Height |-> 0, Version |-> <<>>, Time |-> 0, Info |-> ""]
NoBEntry == [ChainName |-> <<>>, NodeVersion |-> <<>>, Block |-> 0,
             EstimatedUpgradeTime |-> <<>>, Guide |-> "", Repo |-> ""]
NoHist == [sup |-> {}, faulted |-> FALSE, aOut |-> "none", aDoc |-> NoADoc,
           bOut |-> "none", bEnt |-> NoBEntry]
NoJob == [kind |-> "", list |-> <<>>, next |-> 1, ctxDone |-> FALSE,
          ret |-> "", body |-> <<>>]
NoConv == [src |-> "", chain |-> NoInfo, a |-> NoADoc, b |-> NoBEntry,
           done |-> FALSE, out |-> NoUpgrade]

\* the environments the model is run against: which chain.json documents
\* exist in each partition of the upstream registry, the "name" field they
\* carry, and the chain name the callers of the run ask for
Registries ==
    {[mainnet |-> {}, testnet |-> {}, docName |-> <<>>],
     [mainnet |-> {NameHub}, testnet |-> {}, docName |-> <<>>],
     [mainnet |-> {}, testnet |-> {NameHub}, docName |-> <<"hubdoc">>],
     [mainnet |-> {NameHub}, testnet |-> {NameHub}, docName |-> <<>>]}
Upstreams ==
    {[mainnet |-> r.mainnet, testnet |-> r.testnet, docName |-> r.docName,
      asked |-> n] : r \in Registries, n \in ApiNames}

\* Source A documents (per-chain upgrades.json) and Source B entries
\* (Polkachu feed) the upstream may serve; a time string is either an
\* RFC 3339 encoding <<"rfc", t>> of the instant t or unparseable text
SourceADocs ==
    {[Name |-> <<"up1">>, Height |-> 7, Version |-> <<"v1">>, Time |-> 3,
      Info |-> "guideA"]}
SourceBEntries ==
    {[ChainName |-> NameHub, NodeVersion |-> <<"v2">>, Block |-> 9,
      EstimatedUpgradeTime |-> <<"rfc", 4>>, Guide |-> "guideB",
      Repo |-> "repoB"]}

VARIABLES
    up,              \* the upstream registry content and the name asked for
    clock,           \* number of time.Now() readings taken so far
    descCache,       \* cache entries under "chain_info:<name>"
    upgCache,        \* cache entries under "upgrade_info:<name>"
    chains,          \* r.chains
    monitoredChains, \* r.monitoredChains
    readers,         \* workers holding r.mu in shared mode
    writer,          \* worker holding r.mu exclusively, 0 if none
    pc,              \* position of each worker
    call,            \* the registry call each worker executes
    loc,             \* local variables of the call (chain / info, resolved base name)
    res,             \* result of the finished call
    hist,            \* per worker: what the call did (upstream requests, sources)
    failWin,         \* per name: end of the TTL window of the last failed resolution
    calls,           \* number of calls started
    conv,            \* the conversion under test: source, input, result
    job,             \* the aggregate operation in progress
    units,           \* bag of the goroutines it launched: chain name, position
    sem,             \* number of tokens in its semaphore channel
    failedChains,    \* LoadChainsJob.Run: bag of the names appended to failedChains
    response,        \* bag of the records appended to response.Chains / upgrades
    notified,        \* CheckUpgrades: the notifications attempted
    lastChecks,      \* UpgradeChecker.lastChecks
    sched,           \* the Scheduler, its cron engine and its job wrappers
    poller,          \* a Poller or RegistryPoller, its loop and its Stop calls
    checker          \* the UpgradeChecker, its cron engine and its cycles

\* the state of the registry and of its callers
regVars == <<up, clock, descCache, upgCache, chains, monitoredChains, readers,
             writer, pc, call, loc, res, hist, failWin, calls>>
\* the state outside the registry
jobVars == <<job, units, sem, failedChains, response, notified, lastChecks>>
\* the components with a Start / Stop life cycle
svcVars == <<sched, poller, checker>>
auxVars == <<conv, jobVars, svcVars>>

vars == <<regVars, auxVars>>

(***************************************************************************)
(* go-cache: Set stores a value with a time to live of 5 minutes, Get      *)
(* misses an entry whose expiration has passed.  An entry records the      *)
(* minutes it has left; time advances one TTL period at a time (Tick), so  *)
(* an entry is found in the period it was written in and in the next one.  *)
(***************************************************************************)
CacheSet(val) == [st |-> "val", val |-> val, left |-> TTL]
\* a failed lookup that leaves no negative marker behind
CacheSetNil_Dropped(zero) == [st |-> "absent", val |-> zero, left |-> 0]
CacheSetNil(zero) == [st |-> "nil", val |-> zero, left |-> TTL]
CacheFound(e) == e.st # "absent"
Age(e, zero) == IF e.st = "absent" \/ e.left < TTL THEN zero
                ELSE [e EXCEPT !.left = @ - TTL]

(***************************************************************************)
(* The upstream: every request either meets a transport fault or is        *)
(* answered from the registry content.                                     *)
(***************************************************************************)
Exists(part, name) == name \in up[part]

\* outcome of the GET of <part>/<name>/chain.json in fetchChainInfoFromURL
GetFaults == {"ok", "neterr", "s500", "decode"}
fetchChainInfoFromURL(part, name, fault) ==
    IF fault \in {"neterr", "s500"} THEN fault
    ELSE IF ~Exists(part, name) THEN "s404"
    ELSE IF fault = "decode" THEN "decode"
    ELSE "ok"

\* outcome of one HEAD probe; the probes of one tryChainNameVariations call
\* share one 3 s context, so after a timeout every later probe fails at once
ProbeFaults == {"ok", "neterr", "timeout"}
Probe(part, name, fault, expired) ==
    IF expired \/ fault = "timeout" THEN "timeout"
    ELSE IF fault = "neterr" THEN "neterr"
    ELSE IF Exists(part, name) THEN "200" ELSE "404"

\* the numeric-suffix variation: "osmosis-1" -> "osmosis"
BaseName(chainName) ==
    LET idx == LastIndexAny(chainName, {"-", "_"})
    IN  IF idx # 0 /\ AtoiOk(SubSeq(chainName, idx + 1, Len(chainName)))
        THEN SubSeq(chainName, 1, idx - 1) ELSE chainName

HasNumericSuffix(chainName) ==
    LET idx == LastIndexAny(chainName, {"-", "_"})
    IN  idx # 0 /\ AtoiOk(SubSeq(chainName, idx + 1, Len(chainName)))

\* a resolver that probes the testnet partition before the mainnet one
ProbePlan_TestnetFirst(chainName) ==
    <<[part |-> "testnet", name |-> chainName],
      [part |-> "mainnet", name |-> chainName]>> \o
    (IF HasNumericSuffix(chainName)
     THEN <<[part |-> "testnet", name |-> BaseName(chainName)],
            [part |-> "mainnet", name |-> BaseName(chainName)]>>
     ELSE <<>>)
\* the probes tryChainNameVariations would issue if none answered 200
ProbePlan(chainName) ==
    <<[part |-> "mainnet", name |-> chainName],
      [part |-> "testnet", name |-> chainName]>> \o
    (IF HasNumericSuffix(chainName)
     THEN <<[part |-> "mainnet", name |-> BaseName(chainName)],
            [part |-> "testnet", name |-> BaseName(chainName)]>>
     ELSE <<>>)

NotFoundTry == [exists |-> FALSE, base |-> <<>>, network |-> "", issued |-> 0]

RECURSIVE RunProbes(_, _, _, _)
\* issue the probes of plan from position i on; faults[i] is the fault met
\* by probe i
RunProbes(plan, faults, i, expired) ==
    IF i > Len(plan) THEN [NotFoundTry EXCEPT !.issued = Len(plan)]
    ELSE LET r == Probe(plan[i].part, plan[i].name, faults[i], expired)
         IN  IF r = "200"
             THEN [exists |-> TRUE, base |-> plan[i].name,
                   network |-> plan[i].part, issued |-> i]
             ELSE RunProbes(plan, faults, i + 1, expired \/ r = "timeout")

tryChainNameVariations(chainName, faults) ==
    LET name == cleanChainName(chainName)
    IN  IF name = <<>> THEN NotFoundTry
        ELSE RunProbes(ProbePlan(name), faults, 1, FALSE)

\* a descriptor that keeps the name of the document as it is
Descriptor_NoDefault(network, chainName) ==
    [Name |-> up.docName, Network |-> network]
\* the descriptor built from a decoded chain.json
Descriptor(network, chainName) ==
    [Name |-> IF up.docName = <<>> THEN chainName ELSE up.docName,
     Network |-> network]

\* GetChainInfo's classification of the testnet fetch error
ErrKind(r) ==
    IF r = "neterr" THEN "network"
    ELSE IF r = "s404" THEN "notfound"
    ELSE "failed"

(***************************************************************************)
(* convertUpgradeInfo, one operator per case of its type switch.           *)
(***************************************************************************)
\* time.Parse(time.RFC3339, s)
ParseRFC3339(s) ==
    IF Len(s) = 2 /\ s[1] = "rfc" THEN [ok |-> TRUE, t |-> s[2]]
    ELSE [ok |-> FALSE, t |-> 0]

\* a conversion that leaves the record unmarked
convertUpgradeInfoA_Unmarked(chainName, chain, u) ==
    [Name |-> u.Name, ChainName |-> chainName, Height |-> u.Height,
     Version |-> u.Name, Time |-> u.Time, Estimated |-> FALSE,
     Network |-> chain.Network, Guide |-> u.Info, Repo |-> ""]
\* lines 849-867: case *types.UpgradeInfo
convertUpgradeInfoA(chainName, chain, u) ==
    [Name |-> u.Name, ChainName |-> chainName, Height |-> u.Height,
     Version |-> u.Name, Time |-> u.Time, Estimated |-> TRUE,
     Network |-> chain.Network, Guide |-> u.Info, Repo |-> ""]

convertUpgradeInfoB(chainName, chain, u, t) ==
    LET parsed == ParseRFC3339(u.EstimatedUpgradeTime)
    IN  [Name |-> chainName, ChainName |-> chainName, Height |-> u.Block,
         Version |-> u.NodeVersion,
         Time |-> IF parsed.ok THEN parsed.t ELSE t,
         Estimated |-> TRUE, Network |-> chain.Network, Guide |-> u.Guide,
         Repo |-> u.Repo]

\* strings.EqualFold on token sequences
Fold(tok) == IF tok = "HUB" THEN "hub" ELSE tok
EqualFold(a, b) ==
    Len(a) = Len(b) /\ \A i \in 1..Len(a) : Fold(a[i]) = Fold(b[i])

\* the matching loop of fetchPolkachuUpgrades: index of the first entry of
\* the feed whose chain_name matches, 0 if none
PolkachuMatch(feed, chainName) ==
    LET I == {i \in 1..Len(feed) :
                 feed[i].ChainName = chainName
                 \/ EqualFold(feed[i].ChainName, chainName)}
    IN  IF I = {} THEN 0 ELSE SetMin(I)

(***************************************************************************)
(* Initial state: NewChainRegistry.                                        *)
(***************************************************************************)
RegInit(u, names, mon) ==
    /\ up = u
    /\ clock = 0
    /\ descCache = [n \in names |-> NoDescEntry]
    /\ upgCache = [n \in names |-> NoUpgEntry]
    /\ chains = [n \in names |-> [has |-> FALSE, val |-> NoInfo]]
    /\ monitoredChains = mon
    /\ readers = {}
    /\ writer = 0
    /\ pc = [w \in Workers |-> "idle"]
    /\ call = [w \in Workers |-> [op |-> "", name |-> <<>>, force |-> FALSE]]
    /\ loc = [w \in Workers |-> NoLoc]
    /\ res = [w \in Workers |-> NoResult]
    /\ hist = [w \in Workers |-> NoHist]
    /\ failWin = [n \in names |-> [gci |-> -1, gui |-> -1]]
    /\ calls = 0

\* no aggregate operation has been started
JobInit ==
    /\ job = NoJob
    /\ units = EmptyBag
    /\ sem = 0
    /\ failedChains = EmptyBag
    /\ response = EmptyBag
    /\ notified = {}
    /\ lastChecks = <<>>

\* what starts a CheckUpgrades cycle: the hourly entry of the checker's
\* engine, the goroutine of UpgradeChecker.Start, the check-upgrades task of
\* the Scheduler
CycleSources == {"hourly", "immediate", "task"}
\* a cycle between its read of lastChecks and its notification: none
NoPend == [has |-> FALSE, chain |-> <<>>, upg |-> NoUpgrade, exists |-> FALSE,
           lastCheck |-> 0]

\* NewScheduler, poller.New or NewRegistryPoller, NewUpgradeChecker
SvcInit(maxConcurrent, kind) ==
    /\ sched = [started |-> FALSE, cron |-> FALSE,
                maxConcurrent |-> maxConcurrent, activeJobs |-> 0,
                admit |-> 0, task |-> 0, triggers |-> 0, stop |-> "idle",
                atStop |-> 0, ret |-> "", tasks |-> {}, jobs |-> {},
                entries |-> {}, nextId |-> 1, loads |-> 0, loaded |-> <<>>,
                loadRet |-> "", ran |-> {}]
    /\ poller = [kind |-> kind, closed |-> FALSE, wg |-> 0, loop |-> "none",
                 stop |-> "idle", stopped |-> FALSE]
    /\ checker = [started |-> FALSE, cron |-> FALSE, hourly |-> "idle",
                  immediate |-> "none", mu |-> FALSE, triggers |-> 0,
                  stop |-> "idle", stopped |-> FALSE, task |-> "idle",
                  pos |-> [src \in CycleSources |-> 1],
                  pend |-> [src \in CycleSources |-> NoPend], log |-> <<>>]

Init ==
    /\ \E u \in Upstreams : RegInit(u, CallNames, <<>>)
    /\ conv = NoConv
    /\ JobInit
    /\ SvcInit(1, "Poller")

\* which TTL windows of failed resolutions are open for name n
OpenWindows(n) ==
    IF n \in DOMAIN failWin
    THEN {k \in {"gci", "gui"} : failWin[n][k] >= 0} ELSE {}

Begin(w, op, n, f) ==
    /\ pc[w] \in {"idle", "done"}
    /\ calls < MaxCalls
    /\ calls' = calls + 1
    /\ n \in {up.asked, <<>>}
    /\ call' = [call EXCEPT ![w] = [op |-> op, name |-> n, force |-> f]]
    /\ hist' = [hist EXCEPT ![w] = [NoHist EXCEPT !.sup = OpenWindows(n)]]
    /\ loc' = [loc EXCEPT ![w] = NoLoc]

Finish(w, r) ==
    /\ pc' = [pc EXCEPT ![w] = "done"]
    /\ res' = [res EXCEPT ![w] = r]

ErrResult(e) == [NoResult EXCEPT !.kind = "err", !.err = e]
InfoResult(i) == [NoResult EXCEPT !.kind = "info", !.info = i]
UpgResult(u) == [NoResult EXCEPT !.kind = "upg", !.upg = u]
NilResult == [NoResult EXCEPT !.kind = "nil"]

(***************************************************************************)
(* GetChainInfo.                                                           *)
(***************************************************************************)
\* lines 389-399: the cache lookup
GetChainInfoStart(w, n, f) ==
    /\ UNCHANGED auxVars
    /\ Begin(w, "GetChainInfo", n, f)
    /\ IF ~f /\ CacheFound(descCache[n])
       THEN Finish(w, IF descCache[n].st = "nil" THEN ErrResult("cached")
                      ELSE InfoResult(descCache[n].val))
       ELSE /\ pc' = [pc EXCEPT ![w] = "gci_rlock"]
            /\ UNCHANGED res
    /\ UNCHANGED <<up, clock, descCache, upgCache, chains, monitoredChains,
                   readers, writer, failWin>>

\* lines 401-408: RLock, then the chains map lookup
GetChainInfoRLock(w) ==
    /\ UNCHANGED auxVars
    /\ pc[w] = "gci_rlock"
    /\ writer = 0
    /\ IF ~call[w].force /\ chains[call[w].name].has
       THEN /\ Finish(w, InfoResult(chains[call[w].name].val))
            /\ UNCHANGED readers
       ELSE /\ pc' = [pc EXCEPT ![w] = "gci_main"]
            /\ readers' = readers \cup {w}
            /\ UNCHANGED res
    /\ UNCHANGED <<up, clock, descCache, upgCache, chains, monitoredChains,
                   writer, call, loc, hist, failWin, calls>>

\* lines 410-413, 439-447: the mainnet fetch
GetChainInfoMainnet(w) ==
    /\ UNCHANGED auxVars
    /\ pc[w] = "gci_main"
    /\ \E fault \in GetFaults :
          LET r == fetchChainInfoFromURL("mainnet", call[w].name, fault)
          IN  /\ hist' = [hist EXCEPT ![w].faulted = @ \/ fault # "ok"]
              /\ IF r = "ok"
                 THEN /\ loc' = [loc EXCEPT ![w].has = TRUE,
                                    ![w].val = Descriptor("mainnet", call[w].name)]
                      /\ pc' = [pc EXCEPT ![w] = "gci_store"]
                 ELSE /\ pc' = [pc EXCEPT ![w] = "gci_test"]
                      /\ UNCHANGED loc
    /\ UNCHANGED <<up, clock, descCache, upgCache, chains, monitoredChains,
                   readers, writer, call, res, failWin, calls>>

\* lines 414-438, 444-447: the testnet fetch and the failure return
GetChainInfoTestnet(w) ==
    /\ UNCHANGED auxVars
    /\ pc[w] = "gci_test"
    /\ \E fault \in GetFaults :
          LET n == call[w].name
              r == fetchChainInfoFromURL("testnet", n, fault)
          IN  /\ hist' = [hist EXCEPT ![w].faulted = @ \/ fault # "ok"]
              /\ IF r = "ok"
                 THEN /\ loc' = [loc EXCEPT ![w].has = TRUE,
                                    ![w].val = Descriptor("testnet", n)]
                      /\ pc' = [pc EXCEPT ![w] = "gci_store"]
                      /\ UNCHANGED <<descCache, readers, res, failWin>>
                 ELSE /\ descCache' = [descCache EXCEPT ![n] = CacheSetNil(NoInfo)]
                      /\ readers' = readers \ {w}
                      /\ failWin' = [failWin EXCEPT ![n].gci = TTL]
                      /\ Finish(w, ErrResult(ErrKind(r)))
                      /\ UNCHANGED loc
    /\ UNCHANGED <<up, clock, upgCache, chains, monitoredChains, writer, call,
                   calls>>

\* lines 449-452: the chains map write, the cache write and the return
GetChainInfoStore(w) ==
    /\ UNCHANGED auxVars
    /\ pc[w] = "gci_store"
    /\ chains' = [chains EXCEPT ![call[w].name] = [has |-> TRUE, val |-> loc[w].val]]
    /\ descCache' = [descCache EXCEPT ![call[w].name] = CacheSet(loc[w].val)]
    /\ readers' = readers \ {w}
    /\ Finish(w, InfoResult(loc[w].val))
    /\ UNCHANGED <<up, clock, upgCache, monitoredChains, writer, call, loc, hist,
                   failWin, calls>>

(***************************************************************************)
(* GetUpgradeInfo.                                                         *)
(***************************************************************************)
\* lines 243-257: the empty-name check and the cache lookup
GetUpgradeInfoStart(w, n, f) ==
    /\ UNCHANGED auxVars
    /\ Begin(w, "GetUpgradeInfo", n, f)
    /\ IF n = <<>>
       THEN Finish(w, ErrResult("empty"))
       ELSE IF ~f /\ CacheFound(upgCache[n])
       THEN Finish(w, IF upgCache[n].st = "nil" THEN NilResult
                      ELSE UpgResult(upgCache[n].val))
       ELSE /\ pc' = [pc EXCEPT ![w] = "gui_rlock"]
            /\ UNCHANGED res
    /\ UNCHANGED <<up, clock, descCache, upgCache, chains, monitoredChains,
                   readers, writer, failWin>>

\* a lookup that goes on to the upgrade sources whatever the chains map holds
GetUpgradeInfoRLock_NoFetch(w) ==
    /\ UNCHANGED auxVars
    /\ pc[w] = "gui_rlock"
    /\ writer = 0
    /\ loc' = [loc EXCEPT ![w].has = chains[call[w].name].has,
                          ![w].val = chains[call[w].name].val]
    /\ pc' = [pc EXCEPT ![w] = "gui_srcA"]
    /\ UNCHANGED <<up, clock, descCache, upgCache, chains, monitoredChains,
                   readers, writer, call, res, hist, failWin, calls>>
\* lines 259-265: the chains map lookup under the read lock
GetUpgradeInfoRLock(w) ==
    /\ UNCHANGED auxVars
    /\ pc[w] = "gui_rlock"
    /\ writer = 0
    /\ loc' = [loc EXCEPT ![w].has = chains[call[w].name].has,
                          ![w].val = chains[call[w].name].val]
    /\ pc' = [pc EXCEPT ![w] =
                 IF call[w].force \/ ~chains[call[w].name].has
                 THEN "gui_lock" ELSE "gui_srcA"]
    /\ UNCHANGED <<up, clock, descCache, upgCache, chains, monitoredChains,
                   readers, writer, call, res, hist, failWin, calls>>

\* a failure that returns the error and leaves the cache as it is
GetUpgradeInfoFail_NoMarker(w, e) ==
    /\ writer' = 0
    /\ descCache' = descCache
    /\ failWin' = [failWin EXCEPT ![call[w].name].gui = TTL]
    /\ Finish(w, ErrResult(e))
\* lines 269-274: fetchChainInfo failed: unlock, negative marker, error
GetUpgradeInfoFail(w, e) ==
    /\ writer' = 0
    /\ descCache' = [descCache EXCEPT ![call[w].name] = CacheSetNil(NoInfo)]
    /\ failWin' = [failWin EXCEPT ![call[w].name].gui = TTL]
    /\ Finish(w, ErrResult(e))

\* line 266 and lines 455-463: Lock, then fetchChainInfo cleans the name
GetUpgradeInfoLock(w) ==
    /\ UNCHANGED auxVars
    /\ pc[w] = "gui_lock"
    /\ writer = 0
    /\ readers = {}
    /\ IF cleanChainName(call[w].name) = <<>>
       THEN /\ GetUpgradeInfoFail(w, "invalid")
            /\ UNCHANGED writer
       ELSE /\ writer' = w
            /\ pc' = [pc EXCEPT ![w] = "gui_try1"]
            /\ UNCHANGED <<descCache, failWin, res>>
    /\ UNCHANGED <<up, clock, upgCache, chains, monitoredChains, readers, call,
                   loc, hist, calls>>

\* one tryChainNameVariations call of fetchChainInfo on the name tried;
\* retry names the position taken when nothing answered and the name ends
\* in "testnet"
GetUpgradeInfoTry(w, tried, retry) ==
    \E t \in {tried} :
    \E faults \in [1..Len(ProbePlan(cleanChainName(t))) -> ProbeFaults] :
    \E r \in {tryChainNameVariations(t, faults)} :
           /\ UNCHANGED hist
           /\ IF r.exists
              THEN /\ loc' = [loc EXCEPT ![w].base = r.base,
                                        ![w].network = r.network]
                   /\ pc' = [pc EXCEPT ![w] = "gui_get"]
                   /\ UNCHANGED <<descCache, writer, res, failWin>>
              ELSE IF retry
              THEN /\ pc' = [pc EXCEPT ![w] = "gui_try2"]
                   /\ UNCHANGED <<descCache, writer, res, failWin, loc>>
              ELSE /\ GetUpgradeInfoFail(w, "notfound")
                   /\ UNCHANGED loc

\* line 465
GetUpgradeInfoTry1(w) ==
    /\ UNCHANGED auxVars
    /\ pc[w] = "gui_try1"
    /\ GetUpgradeInfoTry(w, cleanChainName(call[w].name),
                         HasSuffix(cleanChainName(call[w].name), "testnet"))
    /\ UNCHANGED <<up, clock, upgCache, chains, monitoredChains, readers, call,
                   calls>>

\* lines 467-470
GetUpgradeInfoTry2(w) ==
    /\ UNCHANGED auxVars
    /\ pc[w] = "gui_try2"
    /\ GetUpgradeInfoTry(w, TrimSuffix(cleanChainName(call[w].name), "testnet"),
                         FALSE)
    /\ UNCHANGED <<up, clock, upgCache, chains, monitoredChains, readers, call,
                   calls>>

\* lines 481-504: the GET of the resolved descriptor
GetUpgradeInfoGet(w) ==
    /\ UNCHANGED auxVars
    /\ pc[w] = "gui_get"
    /\ \E fault \in GetFaults :
          LET r == fetchChainInfoFromURL(loc[w].network, loc[w].base, fault)
          IN  IF r = "ok"
              THEN /\ loc' = [loc EXCEPT ![w].has = TRUE,
                                 ![w].val = Descriptor(loc[w].network,
                                               cleanChainName(call[w].name))]
                   /\ pc' = [pc EXCEPT ![w] = "gui_store"]
                   /\ UNCHANGED <<descCache, writer, res, failWin>>
              ELSE /\ GetUpgradeInfoFail(w, "failed")
                   /\ UNCHANGED loc
    /\ UNCHANGED hist
    /\ UNCHANGED <<up, clock, upgCache, chains, monitoredChains, readers, call,
                   calls>>

\* lines 275-276: the chains map write under the write lock
GetUpgradeInfoStore(w) ==
    /\ UNCHANGED auxVars
    /\ pc[w] = "gui_store"
    /\ chains' = [chains EXCEPT ![call[w].name] = [has |-> TRUE, val |-> loc[w].val]]
    /\ writer' = 0
    /\ pc' = [pc EXCEPT ![w] = "gui_srcA"]
    /\ UNCHANGED <<up, clock, descCache, upgCache, monitoredChains, readers,
                   call, loc, res, hist, failWin, calls>>

\* what getUpgradeInfoFromChain can return: an error or a decoded document
SourceAOutcomes == {[err |-> TRUE, doc |-> NoADoc]} \cup
                   {[err |-> FALSE, doc |-> d] : d \in SourceADocs}

\* a Source A error returned to the caller instead of being swallowed
GetUpgradeInfoSourceA_Propagating(w) ==
    /\ UNCHANGED auxVars
    /\ pc[w] = "gui_srcA"
    /\ \E o \in SourceAOutcomes :
          IF o.err
          THEN /\ hist' = [hist EXCEPT ![w].aOut = "err"]
               /\ Finish(w, ErrResult("sourceA"))
               /\ UNCHANGED upgCache
          ELSE LET u == convertUpgradeInfoA(call[w].name, loc[w].val, o.doc)
               IN  /\ hist' = [hist EXCEPT ![w].aOut = "rec", ![w].aDoc = o.doc]
                   /\ upgCache' = [upgCache EXCEPT ![call[w].name] = CacheSet(u)]
                   /\ Finish(w, UpgResult(u))
    /\ UNCHANGED <<up, clock, descCache, chains, monitoredChains, readers,
                   writer, call, loc, failWin, calls>>

\* lines 285-294: Source A
GetUpgradeInfoSourceA(w) ==
    /\ UNCHANGED auxVars
    /\ pc[w] = "gui_srcA"
    /\ \E o \in SourceAOutcomes :
          IF o.err
          THEN /\ hist' = [hist EXCEPT ![w].aOut = "err"]
               /\ pc' = [pc EXCEPT ![w] = "gui_srcB"]
               /\ UNCHANGED <<upgCache, res>>
          ELSE LET u == convertUpgradeInfoA(call[w].name, loc[w].val, o.doc)
               IN  /\ hist' = [hist EXCEPT ![w].aOut = "rec", ![w].aDoc = o.doc]
                   /\ upgCache' = [upgCache EXCEPT ![call[w].name] = CacheSet(u)]
                   /\ Finish(w, UpgResult(u))
    /\ UNCHANGED <<up, clock, descCache, chains, monitoredChains, readers,
                   writer, call, loc, failWin, calls>>

\* the feeds the Polkachu API may serve
PolkachuFeeds == {<<>>} \cup {<<e>> : e \in SourceBEntries}

\* lines 296-310: Source B and the "no upgrade" return
GetUpgradeInfoSourceB(w) ==
    /\ UNCHANGED auxVars
    /\ pc[w] = "gui_srcB"
    /\ \E fault \in {"ok", "neterr"}, feed \in PolkachuFeeds :
          LET i == PolkachuMatch(feed, call[w].name)
          IN  IF fault # "ok" \/ i = 0
              THEN /\ hist' = [hist EXCEPT ![w].bOut = "err"]
                   /\ upgCache' = [upgCache EXCEPT ![call[w].name] =
                                      CacheSetNil(NoUpgrade)]
                   /\ Finish(w, NilResult)
                   /\ UNCHANGED clock
              ELSE LET u == convertUpgradeInfoB(call[w].name, loc[w].val,
                                                feed[i], clock)
                   IN  /\ hist' = [hist EXCEPT ![w].bOut = "rec",
                                               ![w].bEnt = feed[i]]
                       /\ upgCache' = [upgCache EXCEPT ![call[w].name] =
                                          CacheSet(u)]
                       /\ Finish(w, UpgResult(u))
                       /\ clock' = IF ParseRFC3339(feed[i].EstimatedUpgradeTime).ok
                                   THEN clock ELSE clock + 1
    /\ UNCHANGED <<up, descCache, chains, monitoredChains, readers,
                   writer, call, loc, failWin, calls>>

(***************************************************************************)
(* The operations that only take the lock around a memory access.          *)
(***************************************************************************)
\* lines 740-749
GetAllChains(w) ==
    /\ UNCHANGED auxVars
    /\ Begin(w, "GetAllChains", <<>>, FALSE)
    /\ writer = 0
    /\ readers = {}
    /\ Finish(w, [NoResult EXCEPT !.kind = "keys",
                                  !.keys = {n \in DOMAIN chains : chains[n].has}])
    /\ UNCHANGED <<up, clock, descCache, upgCache, chains, monitoredChains,
                   readers, writer, failWin>>

\* lines 237-241
GetMonitoredChains(w) ==
    /\ UNCHANGED auxVars
    /\ Begin(w, "GetMonitoredChains", <<>>, FALSE)
    /\ writer = 0
    /\ Finish(w, [NoResult EXCEPT !.kind = "list", !.list = monitoredChains])
    /\ UNCHANGED <<up, clock, descCache, upgCache, chains, monitoredChains,
                   readers, writer, failWin>>

MonitoredLists == {<<>>, <<NameHub1, NameHub>>}

\* lines 783-787
SetMonitoredChains(w, list) ==
    /\ UNCHANGED auxVars
    /\ Begin(w, "SetMonitoredChains", <<>>, FALSE)
    /\ writer = 0
    /\ readers = {}
    /\ monitoredChains' = list
    /\ Finish(w, NoResult)
    /\ UNCHANGED <<up, clock, descCache, upgCache, chains, readers, writer,
                   failWin>>

\* a TTL period passes; the janitor of the cache drops what has expired
Tick ==
    /\ UNCHANGED auxVars
    /\ descCache' = [n \in DOMAIN descCache |-> Age(descCache[n], NoDescEntry)]
    /\ upgCache' = [n \in DOMAIN upgCache |-> Age(upgCache[n], NoUpgEntry)]
    /\ failWin' = [n \in DOMAIN failWin |->
                      [k \in {"gci", "gui"} |->
                          IF failWin[n][k] >= TTL THEN failWin[n][k] - TTL ELSE -1]]
    /\ UNCHANGED <<up, clock, chains, monitoredChains, readers, writer, pc,
                   call, loc, res, hist, calls>>

Next ==
    \/ \E w \in Workers, n \in CallNames, f \in BOOLEAN : GetChainInfoStart(w, n, f)
    \/ \E w \in Workers : GetChainInfoRLock(w)
    \/ \E w \in Workers : GetChainInfoMainnet(w)
    \/ \E w \in Workers : GetChainInfoTestnet(w)
    \/ \E w \in Workers : GetChainInfoStore(w)
    \/ \E w \in Workers, n \in CallNames, f \in BOOLEAN : GetUpgradeInfoStart(w, n, f)
    \/ \E w \in Workers : GetUpgradeInfoRLock(w)
    \/ \E w \in Workers : GetUpgradeInfoLock(w)
    \/ \E w \in Workers : GetUpgradeInfoTry1(w)
    \/ \E w \in Workers : GetUpgradeInfoTry2(w)
    \/ \E w \in Workers : GetUpgradeInfoGet(w)
    \/ \E w \in Workers : GetUpgradeInfoStore(w)
    \/ \E w \in Workers : GetUpgradeInfoSourceA(w)
    \/ \E w \in Workers : GetUpgradeInfoSourceB(w)
    \/ \E w \in Workers : GetAllChains(w)
    \/ \E w \in Workers : GetMonitoredChains(w)
    \/ \E w \in Workers, l \in MonitoredLists : SetMonitoredChains(w, l)
    \/ Tick

Spec == Init /\ [][Next]_vars

(***************************************************************************)
(* The registry lock under fair scheduling.  GetChainInfo assigns to       *)
(* r.chains (line 449) while it holds r.mu in shared mode only, so its     *)
(* write can overlap the write of another GetChainInfo or the map read of  *)
(* a caller that takes the read lock (lines 261, 405).  The Go runtime     *)
(* answers an overlapping map access either by letting both accesses go    *)
(* through or by aborting the process ("fatal error: concurrent map        *)
(* writes", "concurrent map read and map write"); both outcomes are kept.  *)
(***************************************************************************)
\* the positions at which a worker is about to read r.chains under the read
\* lock, and the position at which GetChainInfo is about to write it
MapReadPCs == {"gci_rlock", "gui_rlock"}

\* the runtime detects the overlapping access and aborts the process: no
\* goroutine runs any further
ConcurrentMapAccess ==
    /\ UNCHANGED auxVars
    /\ writer = 0
    /\ \E w1, w2 \in Workers :
          /\ w1 # w2
          /\ pc[w1] = "gci_store"
          /\ pc[w2] \in MapReadPCs \cup {"gci_store"}
    /\ pc' = [w \in Workers |-> "fatal"]
    /\ UNCHANGED <<up, clock, descCache, upgCache, chains, monitoredChains,
                   readers, writer, call, loc, res, hist, failWin, calls>>

\* the steps of worker w after the first step of its call
WorkerStep(w) ==
    \/ GetChainInfoRLock(w)
    \/ GetChainInfoMainnet(w)
    \/ GetChainInfoTestnet(w)
    \/ GetChainInfoStore(w)
    \/ GetUpgradeInfoRLock(w)
    \/ GetUpgradeInfoLock(w)
    \/ GetUpgradeInfoTry1(w)
    \/ GetUpgradeInfoTry2(w)
    \/ GetUpgradeInfoGet(w)
    \/ GetUpgradeInfoStore(w)
    \/ GetUpgradeInfoSourceA(w)
    \/ GetUpgradeInfoSourceB(w)

\* a registry whose upstream lists "hub" in both partitions
LockInit ==
    /\ \E n \in {NameHub, NameHubTestnet} :
          RegInit([mainnet |-> {NameHub}, testnet |-> {NameHub},
                   docName |-> <<>>, asked |-> n], CallNames, <<>>)
    /\ conv = NoConv
    /\ JobInit
    /\ SvcInit(1, "Poller")

LockNext == Next \/ ConcurrentMapAccess

\* every upstream request is answered and every goroutine that can take a
\* step is scheduled
LockSpec ==
    /\ LockInit
    /\ [][LockNext]_vars
    /\ \A w \in Workers : WF_vars(WorkerStep(w))

\* while the process runs, the lock is held by the callers inside their
\* critical sections and by nobody else
LockHeldByCallersOnly ==
    (\A v \in Workers : pc[v] # "fatal") =>
    /\ readers = {w \in Workers : pc[w] \in {"gci_main", "gci_test", "gci_store"}}
    /\ writer # 0 => /\ pc[writer] \in {"gui_try1", "gui_try2", "gui_get",
                                         "gui_store"}
                     /\ readers = {}
    /\ \A w \in Workers :
          pc[w] \in {"gui_try1", "gui_try2", "gui_get", "gui_store"}
          => writer = w

\* C35: the registry never leaks its lock and never deadlocks: a caller
\* that has returned, with a result or an error, holds no lock, and every
\* call that was started returns when the upstream answers every request
C35_NoLockLeakAllCallersComplete ==
    /\ []LockHeldByCallersOnly
    /\ \A w \in Workers :
          (pc[w] \notin {"idle", "done"}) ~> (pc[w] \in {"idle", "done"})

(***************************************************************************)
(* Properties of the registry.                                             *)
(***************************************************************************)
\* positions at which a worker has an upstream descriptor probe or fetch
\* in flight
ResolvingPCs == {"gci_main", "gci_test", "gui_try1", "gui_try2", "gui_get"}

\* the names under which any resolution path looks for the descriptor of n
ResolveCandidates(n) ==
    LET c == cleanChainName(n)
        t == TrimSuffix(c, "testnet")
    IN  {n, c, BaseName(c), cleanChainName(t), BaseName(cleanChainName(t))}

\* no descriptor of n is reachable in either partition
Unresolvable(n) ==
    ResolveCandidates(n) \cap (up.mainnet \cup up.testnet) = {}

\* C1: for any chain name at most one upstream resolution is in flight at
\* any time, over all concurrent GetChainInfo and GetUpgradeInfo callers
C1_AtMostOneResolutionInFlight ==
    \A n \in ApiNames :
        Cardinality({w \in Workers :
                        pc[w] \in ResolvingPCs /\ call[w].name = n}) <= 1

\* C2: GetChainInfo(name, false) of a name with no reachable descriptor
\* returns an error and no descriptor (the not-found error when the upstream
\* answered both fetches), and a call started while the TTL window of an
\* earlier failed GetChainInfo is open returns an error without reaching
\* any upstream request
C2_NotFoundIsCachedForGetChainInfo ==
    \A w \in Workers :
        (/\ call[w].op = "GetChainInfo"
         /\ ~call[w].force
         /\ Unresolvable(call[w].name))
        => /\ pc[w] = "done" => res[w].kind = "err"
           /\ (pc[w] = "done" /\ ~hist[w].faulted)
                 => res[w].err \in {"notfound", "cached"}
           /\ "gci" \in hist[w].sup
                 => pc[w] = "done" /\ res[w].err = "cached"

C2_Witness ==
    \E w \in Workers :
        /\ call[w].op = "GetChainInfo"
        /\ ~call[w].force
        /\ Unresolvable(call[w].name)
        /\ "gci" \in hist[w].sup
        /\ pc[w] = "done"
        /\ res[w].kind = "err"

\* C3: after GetUpgradeInfo failed because the chain could not be resolved,
\* a non-forced GetUpgradeInfo or GetChainInfo call started within the TTL
\* window completes without any upstream probe
C3_FailedResolutionSuppressesProbes ==
    \A w \in Workers :
        (/\ call[w].op \in {"GetChainInfo", "GetUpgradeInfo"}
         /\ ~call[w].force
         /\ "gui" \in hist[w].sup)
        => pc[w] \notin ResolvingPCs

\* C4: a GetChainInfo that fails with a transport failure writes no
\* negative marker for the name
C4_TransportFailureNotCached ==
    [][\A w \in Workers :
          (/\ pc[w] = "gci_test"
           /\ pc'[w] = "done"
           /\ res'[w].err = "network")
          => descCache'[call[w].name].st # "nil"]_vars

\* C5: the chains map is only written by a worker that holds the registry
\* lock in exclusive mode
C5_ChainsWrittenUnderWriteLock ==
    \A w \in Workers :
        pc[w] \in {"gci_store", "gui_store"} => writer = w

\* C8: GetUpgradeInfo of a resolved chain consults Source A first and
\* Source B only after A failed; no source error reaches the caller; the
\* first source that yields a record wins, unmerged; when neither yields a
\* record the call returns (nil, no error) and stores a negative upgrade
\* marker
C8_SourcePriority ==
    \A w \in Workers :
        call[w].op = "GetUpgradeInfo" =>
            /\ pc[w] = "gui_srcB" => hist[w].aOut = "err"
            /\ (pc[w] = "done" /\ hist[w].aOut # "none") =>
                  /\ res[w].kind # "err"
                  /\ hist[w].aOut = "rec" =>
                        /\ hist[w].bOut = "none"
                        /\ res[w] = UpgResult(convertUpgradeInfoA(
                                       call[w].name, loc[w].val, hist[w].aDoc))
                  /\ (hist[w].aOut = "err" /\ hist[w].bOut = "rec") =>
                        /\ res[w].kind = "upg"
                        /\ [res[w].upg EXCEPT !.Time = 0] =
                              [convertUpgradeInfoB(call[w].name, loc[w].val,
                                  hist[w].bEnt, 0) EXCEPT !.Time = 0]
                  /\ (hist[w].aOut = "err" /\ hist[w].bOut = "err") =>
                        res[w].kind = "nil"

C8_NegativeMarkerStored ==
    \A w \in Workers :
        (pc[w] = "gui_srcB" /\ pc'[w] = "done" /\ res'[w].kind = "nil")
        => upgCache'[call[w].name].st = "nil"

C17_ExpiredEntryIsRefetched ==
    [][\A w \in Workers :
          (/\ pc[w] = "gci_rlock"
           /\ ~call[w].force
           /\ descCache[call[w].name].st = "absent"
           /\ chains[call[w].name].has)
          => ~(/\ pc'[w] = "done"
               /\ res'[w].kind = "info"
               /\ res'[w].info = chains[call[w].name].val)]_vars

\* C21: once the chains map holds a descriptor for a name, the descriptor
\* stays, its name never changes, and its network is changed only by the
\* store of a call made with forceRefresh = true
C21_NetworkChangedOnlyByForce ==
    [][\A n \in DOMAIN chains :
          chains[n].has
          => /\ chains'[n].has
             /\ chains'[n].val.Name = chains[n].val.Name
             /\ chains'[n].val.Network # chains[n].val.Network
                => \E w \in Workers : /\ call[w].name = n
                                      /\ call[w].force
                                      /\ pc[w] \in {"gci_store", "gui_store"}
                                      /\ pc'[w] # pc[w]]_vars

\* a descriptor held or returned for name n is well formed: its network is a
\* partition in which n, or a variation of n, has a document, and its name
\* is the name of the document or, when the document has none, n
WellFormed(n, d) ==
    /\ d.Network \in {"mainnet", "testnet"}
    /\ ResolveCandidates(n) \cap up[d.Network] # {}
    /\ d.Name # <<>>
    /\ d.Name = IF up.docName = <<>> THEN n ELSE up.docName

C32_DescriptorBeforeUpgradeSources ==
    \A w \in Workers :
        call[w].op = "GetUpgradeInfo" =>
            /\ (\/ pc[w] \in {"gui_srcA", "gui_srcB"}
                \/ hist[w].aOut # "none"
                \/ hist[w].bOut # "none")
               => /\ loc[w].has
                  /\ loc[w].val.Network \in {"mainnet", "testnet"}
                  /\ chains[call[w].name].has
                  /\ call[w].force => loc[w].network # ""
                  /\ loc[w].network # "" => loc[w].val.Network = loc[w].network
            /\ (pc[w] = "done" /\ res[w].kind = "err")
               => hist[w].aOut = "none" /\ hist[w].bOut = "none"

\* a forced call fetched the descriptor from the testnet partition and then
\* got a record from Source B, after Source A had failed
C32_Witness ==
    \E w \in Workers :
        /\ call[w].op = "GetUpgradeInfo"
        /\ call[w].force
        /\ pc[w] = "done"
        /\ loc[w].network = "testnet"
        /\ hist[w].aOut = "err"
        /\ hist[w].bOut = "rec"
        /\ res[w].kind = "upg"

\* a record made for chain n: it is marked as an estimate, carries n as its
\* chain name and the network of a partition in which n resolves
RecordOf(n, u) ==
    /\ u.Estimated
    /\ u.ChainName = n
    /\ u.Network \in {"mainnet", "testnet"}
    /\ ResolveCandidates(n) \cap up[u.Network] # {}

\* C33: every record GetUpgradeInfo returns has Estimated = true, the
\* requested name as its chain name and the network of the descriptor it
\* was converted with: the descriptor the call holds for a record made in
\* the call, and for a record served from the cache the one of the call
\* that cached it
C33_RecordEstimatedNameNetwork ==
    /\ \A n \in DOMAIN upgCache :
          upgCache[n].st = "val" => RecordOf(n, upgCache[n].val)
    /\ \A w \in Workers :
          (call[w].op = "GetUpgradeInfo" /\ pc[w] = "done" /\ res[w].kind = "upg")
          => /\ RecordOf(call[w].name, res[w].upg)
             /\ hist[w].aOut # "none"
                => /\ loc[w].has
                   /\ res[w].upg.Network = loc[w].val.Network

\* one call returned a record of Source A made with a testnet descriptor,
\* and a later call got that record from the cache
C33_Witness ==
    \E w, v \in Workers :
        /\ call[w].op = "GetUpgradeInfo" /\ call[v].op = "GetUpgradeInfo"
        /\ pc[w] = "done" /\ pc[v] = "done"
        /\ hist[w].aOut = "rec"
        /\ hist[v].aOut = "none"
        /\ res[w].kind = "upg"
        /\ res[v] = res[w]
        /\ res[v].upg.Network = "testnet"

\* C34: the descriptor cache and the chains map agree: when the chains map
\* holds a descriptor for a name, an unexpired cache entry for the name is
\* no negative marker and holds that descriptor
C34_CacheAgreesWithChainsMap ==
    \A n \in DOMAIN chains :
        (chains[n].has /\ CacheFound(descCache[n]))
        => /\ descCache[n].st = "val"
           /\ descCache[n].val = chains[n].val

\* the positions of a GetUpgradeInfo call from its chains map lookup to the
\* end of fetchChainInfo
DescriptorPCs == {"gui_rlock", "gui_lock", "gui_try1", "gui_try2", "gui_get"}

\* C38: a GetUpgradeInfo(name, true) call that fails in its descriptor
\* resolution returns an error, and no step of it up to that return changes
\* the chains map, the upgrade cache or the monitored list; its only write
\* is the negative marker it leaves in the descriptor cache entry of the
\* name when it fails, and it holds no lock when it has returned
C38_FailedForcedRefreshFrame ==
    [][\A w \in Workers :
          (/\ call'[w].op = "GetUpgradeInfo"
           /\ call'[w].force
           /\ call'[w].name # <<>>
           /\ pc'[w] # pc[w]
           /\ pc'[w] \in DescriptorPCs \cup {"done"}
           /\ pc[w] \in DescriptorPCs \cup {"idle", "done"})
          => /\ chains' = chains
             /\ upgCache' = upgCache
             /\ monitoredChains' = monitoredChains
             /\ IF pc'[w] = "done"
                THEN /\ res'[w].kind = "err"
                     /\ descCache' = [descCache EXCEPT ![call[w].name] =
                                         CacheSetNil(NoInfo)]
                     /\ writer' = 0
                ELSE descCache' = descCache]_vars

\* a forced call failed for a chain whose descriptor and upgrade record an
\* earlier call had stored: both are still there, next to the marker
C38_Witness ==
    \E w \in Workers :
        /\ call[w].op = "GetUpgradeInfo"
        /\ call[w].force
        /\ pc[w] = "done"
        /\ res[w].kind = "err"
        /\ chains[call[w].name].has
        /\ upgCache[call[w].name].st = "val"
        /\ descCache[call[w].name].st = "nil"

\* C29: GetAllChains answers from the upstream registry: it returns an
\* error, or else the names of the chains the upstream registry lists
C29_GetAllChainsListsUpstream ==
    \A w \in Workers :
        (call[w].op = "GetAllChains" /\ pc[w] = "done")
        => \/ res[w].kind = "err"
           \/ /\ res[w].kind = "keys"
              /\ res[w].keys = up.mainnet \cup up.testnet

(***************************************************************************)
(* The identity resolver on its own: callers of tryChainNameVariations,    *)
(* each result kept with the faults its probes met.                        *)
(***************************************************************************)
\* a call of tryChainNameVariations(up.asked)
ResolveIdentity(w) ==
    /\ UNCHANGED auxVars
    /\ Begin(w, "tryChainNameVariations", up.asked, FALSE)
    /\ \E faults \in [1..Len(ProbePlan(cleanChainName(up.asked))) -> ProbeFaults] :
          Finish(w, [kind |-> "probe", faults |-> faults,
                     try |-> tryChainNameVariations(up.asked, faults)])
    /\ UNCHANGED <<up, clock, descCache, upgCache, chains, monitoredChains,
                   readers, writer, failWin>>

ProbeNext == \E w \in Workers : ResolveIdentity(w)

ProbeSpec == Init /\ [][ProbeNext]_vars

\* probe i of a call for name n: 1 mainnet/n, 2 testnets/n, 3 mainnet/base,
\* 4 testnets/base
ProbeTarget(n, i) ==
    [part |-> IF i % 2 = 1 THEN "mainnet" ELSE "testnet",
     name |-> IF i <= 2 THEN n ELSE BaseName(n)]

\* probe i reports existence: it is answered within the 3 s of the call and
\* its target exists
ProbeReports(n, faults, i) ==
    /\ \A k \in 1..i : faults[k] # "timeout"
    /\ faults[i] = "ok"
    /\ Exists(ProbeTarget(n, i).part, ProbeTarget(n, i).name)

\* C30: the resolver probes mainnet/<name>, testnets/<name> and, only for a
\* name with a numeric suffix, mainnet/<base> and testnets/<base>, in this
\* order; the first probe that reports existence gives the returned name
\* and network and is the last probe issued; when no probe reports
\* existence every probe was issued and the result is not-found
C30_ProbeOrderAndShortCircuit ==
    \A w \in Workers :
        (pc[w] = "done" /\ call[w].op = "tryChainNameVariations")
        => LET n == cleanChainName(call[w].name)
               f == res[w].faults
               r == res[w].try
               last == IF HasNumericSuffix(n) THEN 4 ELSE 2
               hits == {i \in 1..last : ProbeReports(n, f, i)}
           IN  /\ Len(f) = last
               /\ IF hits = {}
                  THEN ~r.exists /\ r.issued = last
                  ELSE /\ r.exists
                       /\ r.issued = SetMin(hits)
                       /\ r.base = ProbeTarget(n, SetMin(hits)).name
                       /\ r.network = ProbeTarget(n, SetMin(hits)).part

\* a name with a numeric suffix whose base exists in both partitions was
\* resolved by the third probe, to mainnet
C30_Witness ==
    \E w \in Workers :
        /\ pc[w] = "done"
        /\ call[w].op = "tryChainNameVariations"
        /\ BaseName(call[w].name) \in up.mainnet \cap up.testnet
        /\ res[w].try.issued = 3
        /\ res[w].try.network = "mainnet"

\* probe i reports existence when it has a timeout of its own: its target
\* exists and the probe itself is answered, whatever the earlier probes met
ProbeReportsAlone(n, faults, i) ==
    /\ faults[i] = "ok"
    /\ Exists(ProbeTarget(n, i).part, ProbeTarget(n, i).name)

\* C31: every existence probe has a timeout budget of its own: a probe
\* that timed out takes nothing from the probes after it, so the first
\* probe that is answered for an existing target decides the result also
\* when an earlier probe timed out
C31_EachProbeHasOwnTimeout ==
    \A w \in Workers :
        (pc[w] = "done" /\ call[w].op = "tryChainNameVariations")
        => LET n == cleanChainName(call[w].name)
               f == res[w].faults
               r == res[w].try
               hits == {i \in 1..Len(f) : ProbeReportsAlone(n, f, i)}
           IN  hits # {} => /\ r.exists
                            /\ r.issued = SetMin(hits)
                            /\ r.network = ProbeTarget(n, SetMin(hits)).part

(***************************************************************************)
(* Chain-name normalization on its own: fetchChainInfo cleans the name it  *)
(* was given and hands the result to tryChainNameVariations, which cleans  *)
(* it again before it builds its URLs.  The names are drawn in the initial *)
(* state from the strings of at most MaxNameLen tokens.                    *)
(***************************************************************************)
MaxNameLen == 5

CleanTokens == {"hub", ".", "/", " ", "json"}
CleanInputs == UNION {[1..k -> CleanTokens] : k \in 0..MaxNameLen}

CleanInit ==
    /\ \E x \in CleanInputs :
          RegInit([mainnet |-> {}, testnet |-> {}, docName |-> <<>>,
                   asked |-> x], CallNames, <<>>)
    /\ conv = NoConv
    /\ JobInit
    /\ SvcInit(1, "Poller")

\* lines 460 and 535: the name fetchChainInfo goes on with and reports, and
\* the name tryChainNameVariations probes for it
FetchChainInfoClean(w) ==
    /\ UNCHANGED auxVars
    /\ Begin(w, "cleanChainName", up.asked, FALSE)
    /\ \E c \in {cleanChainName(up.asked)} :
          Finish(w, [kind |-> "name", reported |-> c,
                     probed |-> cleanChainName(c)])
    /\ UNCHANGED <<up, clock, descCache, upgCache, chains, monitoredChains,
                   readers, writer, failWin>>

CleanNext == \E w \in Workers : FetchChainInfoClean(w)

CleanSpec == CleanInit /\ [][CleanNext]_vars

\* C39: normalization is idempotent: the name tryChainNameVariations
\* probes after cleaning again is the name fetchChainInfo cleaned and
\* reports
C39_CleanChainNameIdempotent ==
    \A w \in Workers :
        (pc[w] = "done" /\ call[w].op = "cleanChainName")
        => res[w].probed = res[w].reported

\* C19: when chain X exists only under the mainnet partition, a non-forced
\* GetChainInfo of X, or of X followed by a numeric suffix, that meets no
\* transport fault and no negative marker returns a descriptor with
\* network mainnet
C19_MainnetOnlyAndNumericSuffix ==
    \A w \in Workers :
        (/\ call[w].op = "GetChainInfo"
         /\ ~call[w].force
         /\ pc[w] = "done"
         /\ ~hist[w].faulted
         /\ hist[w].sup = {}
         /\ call[w].name # <<>>
         /\ BaseName(call[w].name) \in up.mainnet \ up.testnet)
        => /\ res[w].kind = "info"
           /\ res[w].info.Network = "mainnet"

(***************************************************************************)
(* convertUpgradeInfo as a function of its inputs: the inputs are drawn in *)
(* the initial state, one step applies the case of the type switch the     *)
(* input selects.                                                          *)
(***************************************************************************)
MaxHeight == 2

Heights == -1..MaxHeight
Versions == {<<>>, <<"v1">>, <<"v2">>}
ConvADocs ==
    {[Name |-> n, Height |-> h, Version |-> v, Time |-> 3, Info |-> "guideA"] :
        n \in {<<"up1">>, <<"v1">>}, h \in Heights, v \in Versions}
ConvBEntries ==
    {[ChainName |-> NameHub, NodeVersion |-> v, Block |-> h,
      EstimatedUpgradeTime |-> ts, Guide |-> "guideB", Repo |-> "repoB"] :
        v \in Versions, h \in Heights, ts \in {<<"rfc", 4>>, <<"soon">>}}

ConvInit ==
    /\ RegInit([mainnet |-> {NameHub}, testnet |-> {}, docName |-> <<>>,
                asked |-> NameHub], ApiNames, <<>>)
    /\ JobInit
    /\ SvcInit(1, "Poller")
    /\ \E nw \in {"mainnet", "testnet"} :
          \/ \E d \in ConvADocs :
                conv = [NoConv EXCEPT !.src = "A", !.chain.Name = NameHub,
                                      !.chain.Network = nw, !.a = d]
          \/ \E e \in ConvBEntries :
                conv = [NoConv EXCEPT !.src = "B", !.chain.Name = NameHub,
                                      !.chain.Network = nw, !.b = e]

\* lines 849-867: case *types.UpgradeInfo
ConvertA ==
    /\ conv.src = "A"
    /\ ~conv.done
    /\ conv' = [conv EXCEPT !.done = TRUE,
                            !.out = convertUpgradeInfoA(NameHub, conv.chain, conv.a)]
    /\ UNCHANGED <<regVars, jobVars, svcVars>>

\* lines 868-906: case *PolkachuUpgrade; time.Now() is read when the time
\* string does not parse
ConvertB ==
    /\ conv.src = "B"
    /\ ~conv.done
    /\ conv' = [conv EXCEPT !.done = TRUE,
                            !.out = convertUpgradeInfoB(NameHub, conv.chain,
                                                        conv.b, clock)]
    /\ UNCHANGED <<jobVars, svcVars>>
    /\ clock' = IF ParseRFC3339(conv.b.EstimatedUpgradeTime).ok
                THEN clock ELSE clock + 1
    /\ UNCHANGED <<up, descCache, upgCache, chains, monitoredChains, readers,
                   writer, pc, call, loc, res, hist, failWin, calls>>

ConvNext == ConvertA \/ ConvertB

ConvSpec == ConvInit /\ [][ConvNext]_vars

\* C7: conversion preserves height and version for both sources: a Source A
\* document with height H and version V yields a record with Height = H and
\* Version = V, and a Source B entry with block H and node_version V yields
\* a record with Height = H and Version = V
C7_ConversionPreservesHeightAndVersion ==
    conv.done =>
        /\ conv.src = "A" => /\ conv.out.Height = conv.a.Height
                             /\ conv.out.Version = conv.a.Version
        /\ conv.src = "B" => /\ conv.out.Height = conv.b.Block
                             /\ conv.out.Version = conv.b.NodeVersion

(***************************************************************************)
(* The registry calls as their callers see them: one call run to its       *)
(* return.  The upstream of the aggregate operations also fixes what the   *)
(* two upgrade sources serve for each chain; a call meets a transport      *)
(* fault or none in its descriptor requests (fr) and in its upgrade source *)
(* requests (fs); the aggregate operations below let one condition hold    *)
(* for all the requests of a call.                                         *)
(***************************************************************************)
ConfigNames == <<NameHub, NameHub1, <<"osmo">>, NameHubTestnet, <<"juno">>,
                 <<"akash">>, <<"stars">>, <<"regen">>>>
JobNames == {ConfigNames[i] : i \in 1..Len(ConfigNames)}

JobFaults == {"ok", "neterr"}

JobUpstream ==
    [mainnet |-> {NameHub, <<"osmo">>, <<"akash">>, <<"stars">>},
     testnet |-> {<<"juno">>},
     docName |-> <<>>,
     asked |-> <<>>,
     config |-> <<>>,
     srcA |-> [n \in JobNames |->
                 IF n = NameHub
                 THEN [err |-> FALSE,
                       doc |-> [Name |-> <<"up1">>, Height |-> 7,
                                Version |-> <<"v1">>, Time |-> 3,
                                Info |-> "guideA"]]
                 ELSE IF n = <<"osmo">>
                 THEN [err |-> FALSE,
                       doc |-> [Name |-> <<"up2">>, Height |-> 0,
                                Version |-> <<"v3">>, Time |-> 0,
                                Info |-> ""]]
                 ELSE [err |-> TRUE, doc |-> NoADoc]],
     feed |-> <<[ChainName |-> <<"akash">>, NodeVersion |-> <<"v2">>,
                 Block |-> 9, EstimatedUpgradeTime |-> <<"rfc", 4>>,
                 Guide |-> "guideB", Repo |-> "repoB"],
                [ChainName |-> <<"juno">>, NodeVersion |-> <<>>,
                 Block |-> 8, EstimatedUpgradeTime |-> <<"rfc", 6>>,
                 Guide |-> "guideB", Repo |-> "repoB"]>>]

\* the part of the registry state a call reads and writes
RegState == [desc |-> descCache, upg |-> upgCache, chains |-> chains,
             clock |-> clock]
SetRegState(st) ==
    /\ descCache' = st.desc
    /\ upgCache' = st.upg
    /\ chains' = st.chains
    /\ clock' = st.clock

\* lines 439-452: Network is set, the descriptor is stored and cached
StoreChainInfo(st, n, info) ==
    [st |-> [st EXCEPT !.chains[n] = [has |-> TRUE, val |-> info],
                       !.desc[n] = CacheSet(info)],
     res |-> InfoResult(info)]

\* lines 410-437: the mainnet fetch (r1), then the testnet fetch (r2)
FetchEitherPartition(st, n, r1, r2) ==
    IF r1 = "ok" THEN StoreChainInfo(st, n, Descriptor("mainnet", n))
    ELSE IF r2 = "ok" THEN StoreChainInfo(st, n, Descriptor("testnet", n))
    ELSE [st |-> [st EXCEPT !.desc[n] = CacheSetNil(NoInfo)],
          res |-> ErrResult(ErrKind(r2))]

\* lines 389-453
DoGetChainInfo(st, n, force, fr) ==
    IF ~force /\ CacheFound(st.desc[n])
    THEN [st |-> st,
          res |-> IF st.desc[n].st = "nil" THEN ErrResult("cached")
                  ELSE InfoResult(st.desc[n].val)]
    ELSE IF ~force /\ st.chains[n].has
    THEN [st |-> st, res |-> InfoResult(st.chains[n].val)]
    ELSE FetchEitherPartition(st, n,
                              fetchChainInfoFromURL("mainnet", n, fr),
                              fetchChainInfoFromURL("testnet", n, fr))

\* lines 481-504: the GET of the descriptor the probes located
FetchLocated(name, t, fr) ==
    IF ~t.exists THEN [err |-> "notfound", info |-> NoInfo]
    ELSE IF fetchChainInfoFromURL(t.network, t.base, fr) # "ok"
    THEN [err |-> "failed", info |-> NoInfo]
    ELSE [err |-> "", info |-> Descriptor(t.network, name)]

\* lines 465-479: the second try, without a "testnet" suffix
RetryWithoutTestnet(name, t1, faults) ==
    IF ~t1.exists /\ HasSuffix(name, "testnet")
    THEN tryChainNameVariations(TrimSuffix(name, "testnet"), faults)
    ELSE t1

\* lines 460-504, for a cleaned name
FetchCleaned(name, faults, fr) ==
    IF name = <<>> THEN [err |-> "invalid", info |-> NoInfo]
    ELSE FetchLocated(name,
                      RetryWithoutTestnet(name,
                                          tryChainNameVariations(name, faults),
                                          faults),
                      fr)

\* lines 455-505
DoFetchChainInfo(n, fr) ==
    FetchCleaned(cleanChainName(n), [i \in 1..4 |-> fr], fr)

\* lines 290-293, 301-304: the converted record is cached and returned; now
\* is the clock after the conversion
StoreUpgrade(st, n, u, now) ==
    [st |-> [st EXCEPT !.upg[n] = CacheSet(u), !.clock = now],
     res |-> UpgResult(u)]

\* lines 296-310: Source B, entry i of the feed matching (0: none, or the
\* request failed)
QuerySourceB(st, n, chain, i) ==
    IF i # 0
    THEN StoreUpgrade(st, n,
                      convertUpgradeInfoB(n, chain, up.feed[i], st.clock),
                      IF ParseRFC3339(up.feed[i].EstimatedUpgradeTime).ok
                      THEN st.clock ELSE st.clock + 1)
    ELSE [st |-> [st EXCEPT !.upg[n] = CacheSetNil(NoUpgrade)],
          res |-> NilResult]

\* lines 285-310: Source A with outcome a, then Source B
QuerySources(st, n, chain, a, fs) ==
    IF ~a.err
    THEN StoreUpgrade(st, n, convertUpgradeInfoA(n, chain, a.doc), st.clock)
    ELSE QuerySourceB(st, n, chain,
                      IF fs = "ok" THEN PolkachuMatch(up.feed, n) ELSE 0)

\* what getUpgradeInfoFromChain returns for chain n
SourceAOutcome(n, fs) ==
    IF fs = "ok" THEN up.srcA[n] ELSE [err |-> TRUE, doc |-> NoADoc]

\* lines 265-277: f is what fetchChainInfo returned
AfterFetchChainInfo(st, n, f, fs) ==
    IF f.err # ""
    THEN [st |-> [st EXCEPT !.desc[n] = CacheSetNil(NoInfo)],
          res |-> ErrResult(f.err)]
    ELSE QuerySources([st EXCEPT !.chains[n] = [has |-> TRUE, val |-> f.info]],
                      n, f.info, SourceAOutcome(n, fs), fs)

\* lines 243-311
DoGetUpgradeInfo(st, n, force, fr, fs) ==
    IF n = <<>> THEN [st |-> st, res |-> ErrResult("empty")]
    ELSE IF ~force /\ CacheFound(st.upg[n])
    THEN [st |-> st,
          res |-> IF st.upg[n].st = "nil" THEN NilResult
                  ELSE UpgResult(st.upg[n].val)]
    ELSE IF force \/ ~st.chains[n].has
    THEN AfterFetchChainInfo(st, n, DoFetchChainInfo(n, fr), fs)
    ELSE QuerySources(st, n, st.chains[n].val, SourceAOutcome(n, fs), fs)

\* lines 789-815
ChainExists(n, fr) ==
    /\ n # <<>>
    /\ \/ Probe("mainnet", n, fr, FALSE) = "200"
       \/ Probe("testnet", n, fr, FALSE) = "200"

\* a probe that only reports cached records
IsUpgradeCached_RecordsOnly(st, n) == st.upg[n].st = "val"
\* lines 912-915
IsUpgradeCached(st, n) == CacheFound(st.upg[n])

(***************************************************************************)
(* The bounded fan-outs: LoadChainsJob.Run, StartupNotifier.NotifyStartup, *)
(* Handler.GetUpgrades, ChainRegistry.GetMainnetUpgrades and               *)
(* GetTestnetUpgrades.  Each launches one goroutine per chain of its list; *)
(* a goroutine first sends on the semaphore channel (the admission gate),  *)
(* runs its registry calls and receives from the channel in a deferred     *)
(* call when it returns.  The goroutines of one fan-out differ only in     *)
(* their chain name, so they are kept as a bag of records.                 *)
(***************************************************************************)
NumExtra == 2

FanOuts == {"LoadChains", "NotifyStartup", "GetUpgrades", "GetMainnetUpgrades",
            "GetTestnetUpgrades"}

\* semaphore := make(chan struct{}, N)
Cap(kind) == IF kind \in {"LoadChains", "NotifyStartup"} THEN 5 ELSE 10

\* a monitored list of k chains
MonitoredList(k) == [i \in 1..k |-> IF i % 2 = 1 THEN NameHub ELSE <<"juno">>]
\* the configured chains of LoadChainsJob.Run: mainnet names, then testnet names
ConfigList == SubSeq(ConfigNames, 1, Cap("LoadChains") + NumExtra)
\* a configuration of three chains, of which "hub-1" has no descriptor
ShortConfigList == SubSeq(ConfigNames, 1, 3)

Move(u, v) == (units (-) SetToBag({u})) (+) SetToBag({v})
UnitsAt(P) == {u \in BagToSet(units) : u.pc \in P}
CountAt(P) == BagCardinality([u \in UnitsAt(P) |-> units[u]])
InFlight == CountAt({"in1", "in2"})
AllDone == job.next > Len(job.list) /\ CountAt({"done"}) = Len(job.list)

regCall == <<descCache, upgCache, chains, clock>>
regRest == <<up, readers, writer, pc, call, loc, res, hist, failWin, calls,
            svcVars>>

\* the operation is called: LoadChainsJob.Run loads the configured chains,
\* or returns the error of LoadChainConfig; the others read the monitored
\* chains
JobStart(kind) ==
    /\ job.kind = ""
    /\ \/ job' = [NoJob EXCEPT !.kind = kind,
                              !.list = IF kind = "LoadChains" THEN up.config
                                       ELSE monitoredChains]
       \/ /\ kind = "LoadChains"
          /\ job' = [NoJob EXCEPT !.kind = kind, !.ret = "err"]
    /\ UNCHANGED <<regCall, regRest, monitoredChains, conv, units, sem,
                   failedChains, response, notified, lastChecks>>

\* wg.Add(1); go func(name string) {...}(chainName); the loop of
\* Handler.GetUpgrades answers 504 instead when its context is done
FanOutLaunch(kind) ==
    /\ job.kind = kind
    /\ job.ret = ""
    /\ job.next <= Len(job.list)
    /\ IF kind = "GetUpgrades" /\ job.ctxDone
       THEN /\ job' = [job EXCEPT !.ret = "timeout"]
            /\ UNCHANGED units
       ELSE /\ job' = [job EXCEPT !.next = @ + 1]
            /\ units' = units (+) SetToBag({[name |-> job.list[job.next],
                                             pc |-> "wait", failed |-> FALSE]})
    /\ UNCHANGED <<regCall, regRest, monitoredChains, conv, sem, failedChains,
                   response, notified, lastChecks>>

\* a goroutine that sent on the channel without regard to its capacity
FanOutAcquire_Ungated(kind, u) ==
    /\ job.kind = kind
    /\ u.pc = "wait"
    /\ sem' = sem + 1
    /\ units' = Move(u, [u EXCEPT !.pc = "in1"])
    /\ UNCHANGED <<regCall, regRest, monitoredChains, conv, job, failedChains,
                   response, notified, lastChecks>>
\* semaphore <- struct{}{}
FanOutAcquire(kind, u) ==
    /\ job.kind = kind
    /\ u.pc = "wait"
    /\ sem < Cap(kind)
    /\ sem' = sem + 1
    /\ units' = Move(u, [u EXCEPT !.pc = "in1"])
    /\ UNCHANGED <<regCall, regRest, monitoredChains, conv, job, failedChains,
                   response, notified, lastChecks>>

\* the goroutine returns: defer func() { <-semaphore }(), defer wg.Done()
Release(u, v) ==
    /\ sem' = sem - 1
    /\ units' = Move(u, [v EXCEPT !.pc = "done"])

\* a return that does not wait for the goroutines
FanOutReturn_NoWait(kind) ==
    /\ job.kind = kind
    /\ job.ret = ""
    /\ job.next > Len(job.list)
    /\ job' = [job EXCEPT
                 !.ret = IF kind \in {"LoadChains", "NotifyStartup"}
                         THEN "nil" ELSE "ok",
                 !.body = IF kind \in {"LoadChains", "NotifyStartup"}
                          THEN <<>> ELSE response]
    /\ monitoredChains' = IF kind = "LoadChains" THEN job.list
                          ELSE monitoredChains
    /\ UNCHANGED <<regCall, regRest, conv, units, sem, failedChains, response,
                   notified, lastChecks>>
\* wg.Wait() returns; LoadChainsJob.Run sets the monitored chains and
\* returns nil, NotifyStartup returns nil, GetMainnetUpgrades and
\* GetTestnetUpgrades return the records in the order they were appended
FanOutReturn(kind) ==
    /\ job.kind = kind
    /\ job.ret = ""
    /\ AllDone
    /\ job' = [job EXCEPT
                 !.ret = IF kind \in {"LoadChains", "NotifyStartup"}
                         THEN "nil" ELSE "ok",
                 !.body = IF kind \in {"LoadChains", "NotifyStartup"}
                          THEN <<>> ELSE response]
    /\ monitoredChains' = IF kind = "LoadChains" THEN job.list
                          ELSE monitoredChains
    /\ UNCHANGED <<regCall, regRest, conv, units, sem, failedChains, response,
                   notified, lastChecks>>

(***************************************************************************)
(* The goroutine bodies.                                                   *)
(***************************************************************************)
\* LoadChainsJob.Run: a failed GetChainInfo is recorded and ends the goroutine
LoadChainsAfterGetChainInfo(u, d) ==
    /\ SetRegState(d.st)
    /\ IF d.res.kind = "err"
       THEN /\ failedChains' = failedChains (+) SetToBag({u.name})
            /\ Release(u, [u EXCEPT !.failed = TRUE])
       ELSE /\ units' = Move(u, [u EXCEPT !.pc = "in2"])
            /\ UNCHANGED <<sem, failedChains>>

\* LoadChainsJob.Run: GetChainInfo(name, true)
LoadChainsGetChainInfo ==
    /\ job.kind = "LoadChains"
    /\ \E u \in UnitsAt({"in1"}), fr \in JobFaults :
          LoadChainsAfterGetChainInfo(
              u, DoGetChainInfo(RegState, u.name, TRUE, fr))
    /\ UNCHANGED <<regRest, monitoredChains, conv, job, response, notified,
                   lastChecks>>

\* LoadChainsJob.Run: GetUpgradeInfo(name, true); its error is only logged
LoadChainsGetUpgradeInfo ==
    /\ job.kind = "LoadChains"
    /\ \E u \in UnitsAt({"in2"}), f \in JobFaults :
          /\ SetRegState(DoGetUpgradeInfo(RegState, u.name, TRUE, f, f).st)
          /\ Release(u, u)
    /\ UNCHANGED <<regRest, monitoredChains, conv, job, failedChains, response,
                   notified, lastChecks>>

\* NotifyStartup: skip a chain whose upgrade is cached, else GetUpgradeInfo
NotifyStartupUnit ==
    /\ job.kind = "NotifyStartup"
    /\ \E u \in UnitsAt({"in1"}), f \in JobFaults :
          /\ IF IsUpgradeCached(RegState, u.name)
             THEN UNCHANGED regCall
             ELSE SetRegState(
                      DoGetUpgradeInfo(RegState, u.name, FALSE, f, f).st)
          /\ Release(u, u)
    /\ UNCHANGED <<regRest, monitoredChains, conv, job, failedChains, response,
                   notified, lastChecks>>

\* Handler.GetUpgrades: the entry appended to response.Chains
ChainUpgrade(u) ==
    [Name |-> u.ChainName, Network |-> u.Network, Version |-> u.Version,
     Height |-> u.Height, Guide |-> u.Guide, Repo |-> u.Repo]

\* the goroutines of Handler.GetUpgrades (keep = "") append an entry for
\* every record, those of GetMainnetUpgrades / GetTestnetUpgrades the
\* records of their network
AppendAfterGetUpgradeInfo(keep, u, d) ==
    /\ SetRegState(d.st)
    /\ response' =
          IF d.res.kind = "upg" /\ keep = ""
          THEN response (+) SetToBag({ChainUpgrade(d.res.upg)})
          ELSE IF d.res.kind = "upg" /\ d.res.upg.Network = keep
          THEN response (+) SetToBag({d.res.upg})
          ELSE response
    /\ Release(u, u)

\* Handler.GetUpgrades, GetMainnetUpgrades, GetTestnetUpgrades:
\* GetUpgradeInfo(name, false)
ReadPathUnit(kind) ==
    /\ job.kind = kind
    /\ \E u \in UnitsAt({"in1"}), f \in JobFaults :
          AppendAfterGetUpgradeInfo(
              IF kind = "GetUpgrades" THEN ""
              ELSE IF kind = "GetMainnetUpgrades" THEN "mainnet" ELSE "testnet",
              u, DoGetUpgradeInfo(RegState, u.name, FALSE, f, f))
    /\ UNCHANGED <<regRest, monitoredChains, conv, job, failedChains, notified,
                   lastChecks>>

(***************************************************************************)
(* Handler.GetUpgrades (GET /api/v1/upgrades): its deadline and its        *)
(* response.                                                               *)
(***************************************************************************)
\* the chain names in the order of Go's string comparison
NameOrder == <<<<"akash">>, NameHub, NameHub1, NameHubTestnet, <<"juno">>,
               <<"osmo">>, <<"regen">>, <<"stars">>>>
NameRank(n) == CHOOSE i \in 1..Len(NameOrder) : NameOrder[i] = n
NetworkRank(nw) == IF nw = "mainnet" THEN 1 ELSE IF nw = "testnet" THEN 2 ELSE 0

\* the less function of sort.Slice: by name, then by network
ChainLess(a, b) ==
    IF a.Name = b.Name THEN NetworkRank(a.Network) < NetworkRank(b.Network)
    ELSE NameRank(a.Name) < NameRank(b.Name)

RECURSIVE SortChains(_)
\* sort.Slice(response.Chains, less)
SortChains(b) ==
    IF b = EmptyBag THEN <<>>
    ELSE LET m == CHOOSE x \in BagToSet(b) : \A y \in BagToSet(b) : ~ChainLess(y, x)
         IN  <<m>> \o SortChains(b (-) SetToBag({m}))

\* the 30 s deadline of the request context passes
GetUpgradesDeadline ==
    /\ job.kind = "GetUpgrades"
    /\ job.ret = ""
    /\ ~job.ctxDone
    /\ job' = [job EXCEPT !.ctxDone = TRUE]
    /\ UNCHANGED <<regCall, regRest, monitoredChains, conv, units, sem,
                   failedChains, response, notified, lastChecks>>

\* a handler that answers with what has been appended so far when the
\* deadline passes
GetUpgradesReturn_Partial ==
    /\ job.kind = "GetUpgrades"
    /\ job.ret = ""
    /\ job.next > Len(job.list)
    /\ \/ /\ job.ctxDone
          /\ job' = [job EXCEPT !.ret = "ok", !.body = SortChains(response)]
       \/ /\ AllDone
          /\ job' = [job EXCEPT !.ret = "ok", !.body = SortChains(response)]
    /\ UNCHANGED <<regCall, regRest, monitoredChains, conv, units, sem,
                   failedChains, response, notified, lastChecks>>
\* the select on ctx.Done() and done; either case may be taken when both
\* are ready
GetUpgradesReturn ==
    /\ job.kind = "GetUpgrades"
    /\ job.ret = ""
    /\ job.next > Len(job.list)
    /\ \/ /\ job.ctxDone
          /\ job' = [job EXCEPT !.ret = "timeout"]
       \/ /\ AllDone
          /\ job' = [job EXCEPT !.ret = "ok", !.body = SortChains(response)]
    /\ UNCHANGED <<regCall, regRest, monitoredChains, conv, units, sem,
                   failedChains, response, notified, lastChecks>>

(***************************************************************************)
(* UpgradeChecker.CheckUpgrades: one cycle over the monitored chains, run  *)
(* under uc.mu.                                                            *)
(***************************************************************************)
\* lines 154-171: the record handed to the notifier
TypesUpgradeInfo(chain, u) == [u EXCEPT !.ChainName = chain, !.Estimated = TRUE]

\* a cycle that notifies every record it sees
CheckUpgradesNotify_Always(chain, u, slack) ==
    /\ notified' = notified \cup
          {[chain |-> chain, upgrade |-> TypesUpgradeInfo(chain, u),
            slack |-> slack]}
    /\ lastChecks' = (chain :> u.Time) @@ lastChecks
\* lines 129-204: the record u is notified and recorded when its time is new
CheckUpgradesNotify(chain, u, slack) ==
    IF chain \notin DOMAIN lastChecks \/ lastChecks[chain] # u.Time
    THEN /\ notified' = notified \cup
               {[chain |-> chain, upgrade |-> TypesUpgradeInfo(chain, u),
                 slack |-> slack]}
         /\ lastChecks' = (chain :> u.Time) @@ lastChecks
    ELSE UNCHANGED <<notified, lastChecks>>

\* lines 113-204: d2 is what GetUpgradeInfo(chain, false) did and returned
CheckUpgradesAfterGetUpgradeInfo(chain, d2, slack) ==
    /\ SetRegState(d2.st)
    /\ IF d2.res.kind = "upg"
       THEN CheckUpgradesNotify(chain, d2.res.upg, slack)
       ELSE UNCHANGED <<notified, lastChecks>>

\* lines 75-204: d1 is what GetChainInfo(chain, false) did and returned
CheckUpgradesAfterGetChainInfo(chain, d1, f, slack) ==
    IF d1.res.kind = "err" \/ d1.res.info.Network \notin {"mainnet", "testnet"}
    THEN /\ SetRegState(d1.st)
         /\ UNCHANGED <<notified, lastChecks>>
    ELSE CheckUpgradesAfterGetUpgradeInfo(
             chain, DoGetUpgradeInfo(d1.st, chain, FALSE, f, f), slack)

\* lines 67-205: one iteration of the loop; slack is the outcome of
\* SendUpgradeNotification
CheckUpgradesChain ==
    /\ job.kind = "CheckUpgrades"
    /\ job.ret = ""
    /\ job.next <= Len(job.list)
    /\ job' = [job EXCEPT !.next = @ + 1]
    /\ \E fe \in JobFaults, f \in JobFaults, slack \in {"sent", "failed"} :
          IF ~ChainExists(job.list[job.next], fe)
          THEN UNCHANGED <<regCall, notified, lastChecks>>
          ELSE CheckUpgradesAfterGetChainInfo(
                   job.list[job.next],
                   DoGetChainInfo(RegState, job.list[job.next], FALSE, f),
                   f, slack)
    /\ UNCHANGED <<regRest, monitoredChains, conv, units, sem, failedChains,
                   response>>

\* lines 206-208: the loop is over, uc.mu is released
CheckUpgradesReturn ==
    /\ job.kind = "CheckUpgrades"
    /\ job.ret = ""
    /\ job.next > Len(job.list)
    /\ job' = [job EXCEPT !.ret = "done"]
    /\ UNCHANGED <<regCall, regRest, monitoredChains, conv, units, sem,
                   failedChains, response, notified, lastChecks>>

(***************************************************************************)
(* Poller.update: one cycle over the monitored chains, run by the loop of   *)
(* Poller.Start.  job.body collects, chain by chain, what GetChainInfo     *)
(* returned to updateChain.                                                *)
(***************************************************************************)
\* Poller.updateChain: d1 is what GetChainInfo(chain, false) did and
\* returned; its error ends updateChain, else GetUpgradeInfo(chain, true)
\* follows, whose result is only logged
PollerUpdateAfterGetChainInfo(chain, d1, fs) ==
    /\ job' = [job EXCEPT
                 !.next = @ + 1,
                 !.body = Append(@, [Name |-> chain, kind |-> d1.res.kind,
                                     info |-> d1.res.info])]
    /\ SetRegState(IF d1.res.kind = "err" THEN d1.st
                   ELSE DoGetUpgradeInfo(d1.st, chain, TRUE, fs, fs).st)

\* Poller.update: one iteration of the loop
PollerUpdateChain ==
    /\ job.kind = "PollerUpdate"
    /\ job.next <= Len(job.list)
    /\ \E fr \in JobFaults, fs \in JobFaults :
          PollerUpdateAfterGetChainInfo(
              job.list[job.next],
              DoGetChainInfo(RegState, job.list[job.next], FALSE, fr), fs)
    /\ UNCHANGED <<regRest, monitoredChains, conv, units, sem, failedChains,
                   response, notified, lastChecks>>

(***************************************************************************)
(* RegistryPoller.update.  Its updateChain logs upgradeInfo.Version and    *)
(* upgradeInfo.Height without testing upgradeInfo, so a nil upgrade is a   *)
(* nil pointer dereference: job.ret = "panic".                             *)
(***************************************************************************)
\* RegistryPoller.updateChain after GetChainInfo(chain, false) returned d1
\* and, when that was no error, GetUpgradeInfo(chain, true) returned d2
RegistryPollerAfterCalls(chain, d1, d2) ==
    /\ SetRegState(IF d1.res.kind = "err" THEN d1.st ELSE d2.st)
    /\ job' = IF d1.res.kind = "err" \/ d2.res.kind = "err"
              THEN [job EXCEPT !.next = @ + 1,
                               !.body = Append(@, [Name |-> chain, ret |-> "err"])]
              ELSE IF d2.res.kind = "nil"
              THEN [job EXCEPT !.ret = "panic"]
              ELSE [job EXCEPT !.next = @ + 1,
                               !.body = Append(@, [Name |-> chain, ret |-> "nil"])]

\* RegistryPoller.update: one iteration of the loop, or its return
RegistryPollerUpdateChain ==
    /\ job.kind = "RegistryPollerUpdate"
    /\ job.ret = ""
    /\ IF job.next > Len(job.list)
       THEN /\ job' = [job EXCEPT !.ret = "nil"]
            /\ UNCHANGED regCall
       ELSE \E fr \in JobFaults, fu \in JobFaults, fs \in JobFaults :
               LET chain == job.list[job.next]
                   d1 == DoGetChainInfo(RegState, chain, FALSE, fr)
               IN  RegistryPollerAfterCalls(
                       chain, d1, DoGetUpgradeInfo(d1.st, chain, TRUE, fu, fs))
    /\ UNCHANGED <<regRest, monitoredChains, conv, units, sem, failedChains,
                   response, notified, lastChecks>>

(***************************************************************************)
(* The aggregate operations over a registry whose caches are empty.        *)
(***************************************************************************)
JobsInit ==
    /\ RegInit([JobUpstream EXCEPT !.config = ConfigList], JobNames,
               MonitoredList(Cap("GetUpgrades") + NumExtra))
    /\ conv = NoConv
    /\ JobInit
    /\ SvcInit(1, "Poller")

JobsNext ==
    \/ \E kind \in FanOuts \cup {"CheckUpgrades", "PollerUpdate",
                              "RegistryPollerUpdate"} : JobStart(kind)
    \/ \E kind \in FanOuts : FanOutLaunch(kind)
    \/ \E kind \in FanOuts, u \in BagToSet(units) : FanOutAcquire(kind, u)
    \/ LoadChainsGetChainInfo
    \/ LoadChainsGetUpgradeInfo
    \/ NotifyStartupUnit
    \/ \E kind \in FanOuts \ {"LoadChains", "NotifyStartup"} : ReadPathUnit(kind)
    \/ \E kind \in FanOuts \ {"GetUpgrades"} : FanOutReturn(kind)
    \/ GetUpgradesDeadline
    \/ GetUpgradesReturn
    \/ CheckUpgradesChain
    \/ CheckUpgradesReturn
    \/ PollerUpdateChain
    \/ RegistryPollerUpdateChain

JobsSpec == JobsInit /\ [][JobsNext]_vars

(***************************************************************************)
(* The monitored list: LoadChainsJob.Run on a new registry, next to        *)
(* callers of GetMonitoredChains and SetMonitoredChains.                   *)
(***************************************************************************)
MonInit ==
    /\ RegInit([JobUpstream EXCEPT !.config = ShortConfigList], JobNames, <<>>)
    /\ conv = NoConv
    /\ JobInit
    /\ SvcInit(1, "Poller")

MonNext ==
    \/ JobStart("LoadChains")
    \/ FanOutLaunch("LoadChains")
    \/ \E u \in BagToSet(units) : FanOutAcquire("LoadChains", u)
    \/ LoadChainsGetChainInfo
    \/ LoadChainsGetUpgradeInfo
    \/ FanOutReturn("LoadChains")
    \/ \E w \in Workers : GetMonitoredChains(w)
    \/ \E w \in Workers, l \in MonitoredLists : SetMonitoredChains(w, l)

MonSpec == MonInit /\ [][MonNext]_vars

InvalidUpgrade(r) == r.Height <= 0 \/ r.Version = <<>>

\* C6: an upgrade record with height <= 0 or an empty version is never
\* surfaced as a pending upgrade: it is not in the chain list of a GetUpgrades
\* response, and CheckUpgrades neither notifies it nor records it as newly
\* found
C6_InvalidRecordNeverSurfaced ==
    /\ (job.kind = "GetUpgrades" /\ job.ret = "ok") =>
          \A i \in 1..Len(job.body) : ~InvalidUpgrade(job.body[i])
    /\ \A x \in notified : ~InvalidUpgrade(x.upgrade)

\* C9: in every bounded fan-out at most N goroutines (N = 5 for
\* LoadChainsJob.Run and NotifyStartup, N = 10 for the GetUpgrades handler and
\* GetMainnetUpgrades/GetTestnetUpgrades) are past the admission gate, and the
\* slots taken are exactly those of the goroutines still running: one that
\* terminated, by success, failure or early return, has given its slot back
C9_AdmissionGateBoundsInFlight ==
    /\ InFlight <= Cap(job.kind)
    /\ sem = InFlight

\* the gate is full, a goroutine waits at it, and one that failed has ended
C9_Witness ==
    /\ job.kind = "LoadChains"
    /\ sem = Cap(job.kind)
    /\ CountAt({"wait"}) > 0
    /\ \E u \in UnitsAt({"done"}) : u.failed

C20_EmptyNameFailsWithoutRequest ==
    /\ \A w \in Workers :
          (call[w].op \in {"GetChainInfo", "GetUpgradeInfo"} /\ call[w].name = <<>>)
          => /\ pc[w] \notin ResolvingPCs
             /\ pc[w] = "done" => res[w].kind = "err"
    /\ \A fr \in JobFaults : ~ChainExists(<<>>, fr)

\* C22: IsUpgradeCached(name) is true exactly when an unexpired upgrade entry,
\* a record or a negative marker, is cached for the name, and a NotifyStartup
\* goroutine that it tells to skip its chain issues no request and changes
\* neither the caches nor the chains map
C22_IsUpgradeCachedIsPureProbe ==
    /\ [](\A n \in DOMAIN upgCache :
            IsUpgradeCached(RegState, n) <=> upgCache[n].st \in {"val", "nil"})
    /\ [][\A u \in UnitsAt({"in1"}) :
             (/\ job.kind = "NotifyStartup"
              /\ upgCache[u.name].st \in {"val", "nil"}
              /\ units' = Move(u, [u EXCEPT !.pc = "done"]))
             => UNCHANGED regCall]_vars

\* a NotifyStartup goroutine has returned for a chain whose upgrade record
\* is cached while another goroutine of the same chain is still to probe
C22_Witness ==
    /\ job.kind = "NotifyStartup"
    /\ \E u \in UnitsAt({"done"}), v \in UnitsAt({"in1"}) :
          /\ u.name = v.name
          /\ upgCache[u.name].st = "val"
          /\ IsUpgradeCached(RegState, v.name)

\* C11: the GetUpgrades request ends with the timeout response or with the
\* list built from all goroutines after all of them ended: a response sent
\* while a goroutine is still in flight is the timeout, never a partial
\* list, and the request fails only when its deadline has passed, whatever
\* errors the chains met
C11_TimeoutOrCompleteList ==
    (job.kind = "GetUpgrades" /\ job.ret # "") =>
        /\ job.ret \in {"ok", "timeout"}
        /\ job.ret = "timeout" => job.ctxDone
        /\ job.ret = "ok" => /\ AllDone
                             /\ sem = 0
                             /\ job.body = SortChains(response)
        /\ ~AllDone => /\ job.ret = "timeout"
                       /\ job.body = <<>>

\* the deadline passed with goroutines in flight and the caller got the
\* timeout
C11_Witness ==
    /\ job.kind = "GetUpgrades"
    /\ job.ret = "timeout"
    /\ job.next > Len(job.list)
    /\ InFlight > 0
    /\ response # EmptyBag

\* C27: an update cycle of the RegistryPoller never crashes: updateChain
\* returns, with nil for a chain whose descriptor and upgrade lookups
\* succeed, also when GetUpgradeInfo reports no upgrade (nil, no error)
C27_RegistryPollerUpdateCompletes ==
    job.kind = "RegistryPollerUpdate" => job.ret # "panic"

C18_SameResultWithinTTL ==
    job.kind = "PollerUpdate" =>
        \A i, j \in 1..Len(job.body) :
            job.body[i].Name = job.body[j].Name =>
                /\ job.body[i].kind = job.body[j].kind
                /\ job.body[i].info = job.body[j].info

(***************************************************************************)
(* The components with a Start / Stop life cycle.  The Scheduler owns a    *)
(* cron engine: Start starts it, the engine starts the wrapper of a due    *)
(* job in a goroutine of its own and counts it in its wait group, Stop     *)
(* stops the engine and waits on the context that is done when the wait    *)
(* group is empty.  Start, Stop and IsRunning hold s.mu; Stop holds it     *)
(* while it waits, so sched.stop = "draining" also says s.mu is taken.     *)
(***************************************************************************)
MaxTriggers == 2

\* a Start that does not look at s.started
SchedulerStart_Unchecked ==
    /\ sched.stop = "idle"
    /\ sched' = [sched EXCEPT !.cron = TRUE, !.started = TRUE, !.ret = "nil"]
    /\ UNCHANGED <<regVars, conv, jobVars, poller, checker>>
\* Scheduler.Start
SchedulerStart ==
    /\ sched.stop = "idle"
    /\ sched' = IF sched.started
                THEN [sched EXCEPT !.ret = "err"]
                ELSE [sched EXCEPT !.cron = TRUE, !.started = TRUE,
                                   !.ret = "nil"]
    /\ UNCHANGED <<regVars, conv, jobVars, poller, checker>>

\* Scheduler.Stop up to ctx := s.cron.Stop(): it returns at once when the
\* scheduler is not started
SchedulerStop ==
    /\ sched.stop = "idle"
    /\ sched' = IF ~sched.started
                THEN [sched EXCEPT !.ret = "stopped"]
                ELSE [sched EXCEPT !.cron = FALSE, !.stop = "draining",
                                   !.atStop = sched.admit + sched.task]
    /\ UNCHANGED <<regVars, conv, jobVars, poller, checker>>

\* a Stop that does not wait for the engine's context
SchedulerStopReturn_NoWait ==
    /\ sched.stop = "draining"
    /\ sched' = [sched EXCEPT !.started = FALSE, !.stop = "idle",
                              !.ret = "stopped"]
    /\ UNCHANGED <<regVars, conv, jobVars, poller, checker>>
\* Scheduler.Stop from <-ctx.Done() to its return
SchedulerStopReturn ==
    /\ sched.stop = "draining"
    /\ sched.admit + sched.task = 0
    /\ sched' = [sched EXCEPT !.started = FALSE, !.stop = "idle",
                              !.ret = "stopped"]
    /\ UNCHANGED <<regVars, conv, jobVars, poller, checker>>

\* Scheduler.IsRunning
SchedulerIsRunning ==
    /\ sched.stop = "idle"
    /\ sched' = [sched EXCEPT !.ret = IF sched.started THEN "true" ELSE "false"]
    /\ UNCHANGED <<regVars, conv, jobVars, poller, checker>>

\* the running engine finds the job due and starts its wrapper
CronTrigger ==
    /\ sched.cron
    /\ sched.triggers < MaxTriggers
    /\ sched' = [sched EXCEPT !.admit = @ + 1, !.triggers = @ + 1]
    /\ UNCHANGED <<regVars, conv, jobVars, poller, checker>>

\* a wrapper that skips only when more than maxConcurrent executions are
\* active
WrapperAdmit_OneMore ==
    /\ sched.admit > 0
    /\ sched' = IF sched.activeJobs > sched.maxConcurrent
                THEN [sched EXCEPT !.admit = @ - 1]
                ELSE [sched EXCEPT !.admit = @ - 1, !.task = @ + 1,
                                   !.activeJobs = @ + 1]
    /\ UNCHANGED <<regVars, conv, jobVars, poller, checker>>
\* the wrapper up to the call of the task: it returns without running the
\* task when maxConcurrent executions are active
WrapperAdmit ==
    /\ sched.admit > 0
    /\ sched' = IF sched.activeJobs >= sched.maxConcurrent
                THEN [sched EXCEPT !.admit = @ - 1]
                ELSE [sched EXCEPT !.admit = @ - 1, !.task = @ + 1,
                                   !.activeJobs = @ + 1]
    /\ UNCHANGED <<regVars, conv, jobVars, poller, checker>>

\* a wrapper that returns without giving the slot back
WrapperTaskReturn_KeepsSlot ==
    /\ sched.task > 0
    /\ sched' = [sched EXCEPT !.task = @ - 1]
    /\ UNCHANGED <<regVars, conv, jobVars, poller, checker>>
\* the task returns, with an error or without, and the wrapper gives the
\* slot back
WrapperTaskReturn ==
    /\ sched.task > 0
    /\ sched' = [sched EXCEPT !.task = @ - 1, !.activeJobs = @ - 1]
    /\ UNCHANGED <<regVars, conv, jobVars, poller, checker>>

(***************************************************************************)
(* The job table of the Scheduler.  s.tasks holds the registered task      *)
(* names, s.jobs maps a job name to the entry id the engine gave it, and   *)
(* the engine holds the entries it runs.  The schedules of the jobs are    *)
(* valid cron expressions.                                                 *)
(***************************************************************************)
MaxLoads == 2
MaxJobs == 2

TaskNames == {"task1", "task2"}
\* types.Job
JobDefs == [Name : {"job1", "job2"}, TaskName : TaskNames, Enabled : BOOLEAN]
JobLists == UNION {[1..k -> JobDefs] : k \in 0..MaxJobs}

\* Scheduler.RegisterTask
RegisterTask(name) ==
    /\ sched.stop = "idle"
    /\ name \notin sched.tasks
    /\ sched' = [sched EXCEPT !.tasks = @ \cup {name}]
    /\ UNCHANGED <<regVars, conv, jobVars, poller, checker>>

RECURSIVE LoadLoop(_, _, _, _, _, _)
\* the loop of LoadPredefinedJobs from job i on: a disabled job is skipped,
\* an unregistered task ends the call, any other job gets an entry of the
\* engine and the slot of its name in s.jobs
LoadLoop(tasks, jobs, i, table, entries, id) ==
    IF i > Len(jobs)
    THEN [jobs |-> table, entries |-> entries, nextId |-> id, ret |-> "nil"]
    ELSE IF ~jobs[i].Enabled
    THEN LoadLoop(tasks, jobs, i + 1, table, entries, id)
    ELSE IF jobs[i].TaskName \notin tasks
    THEN [jobs |-> table, entries |-> entries, nextId |-> id, ret |-> "err"]
    ELSE LoadLoop(tasks, jobs, i + 1,
                  {j \in table : j.Name # jobs[i].Name}
                      \cup {[Name |-> jobs[i].Name,
                             TaskName |-> jobs[i].TaskName, id |-> id]},
                  entries \cup {[id |-> id, Name |-> jobs[i].Name,
                                 TaskName |-> jobs[i].TaskName]},
                  id + 1)

\* Scheduler.LoadPredefinedJobs: the entries named by s.jobs are removed
\* from the engine and s.jobs is emptied, then the jobs are loaded
LoadPredefinedJobs(jobs) ==
    /\ sched.stop = "idle"
    /\ sched.loads < MaxLoads
    /\ LET kept == {e \in sched.entries :
                        e.id \notin {j.id : j \in sched.jobs}}
           r == LoadLoop(sched.tasks, jobs, 1, {}, kept, sched.nextId)
       IN  sched' = [sched EXCEPT !.jobs = r.jobs, !.entries = r.entries,
                                  !.nextId = r.nextId, !.loadRet = r.ret,
                                  !.loaded = jobs, !.loads = @ + 1]
    /\ UNCHANGED <<regVars, conv, jobVars, poller, checker>>

\* the running engine finds an entry due and runs its wrapper to the end:
\* the task runs unless maxConcurrent executions are active
EntryWrapper(e) ==
    /\ sched.cron
    /\ e \in sched.entries
    /\ sched' = IF sched.activeJobs >= sched.maxConcurrent THEN sched
                ELSE [sched EXCEPT !.ran = @ \cup {[Name |-> e.Name,
                                                    TaskName |-> e.TaskName]}]
    /\ UNCHANGED <<regVars, conv, jobVars, poller, checker>>

\* Scheduler.ListJobs, as name and task of each listed job
ListJobs == {[Name |-> j.Name, TaskName |-> j.TaskName] : j \in sched.jobs}

(***************************************************************************)
(* Poller and RegistryPoller.  Start runs in a goroutine of its own (go    *)
(* p.Start() in main), registers itself with p.wg and loops on its ticker  *)
(* until p.stop is closed; RegistryPoller.Start runs one update before the *)
(* loop and also leaves it when its context is done.  Stop closes p.stop   *)
(* and waits for p.wg.                                                     *)
(***************************************************************************)
\* go p.Start(), before any Stop
PollerGo ==
    /\ poller.loop = "none"
    /\ poller.stop = "idle"
    /\ ~poller.closed
    /\ poller' = [poller EXCEPT !.loop = "spawned"]
    /\ UNCHANGED <<regVars, conv, jobVars, sched, checker>>

\* Start up to its loop: p.wg.Add(1), the ticker, and for a RegistryPoller
\* the call of the first update
PollerStart ==
    /\ poller.loop = "spawned"
    /\ poller' = [poller EXCEPT
                    !.wg = @ + 1,
                    !.loop = IF poller.kind = "RegistryPoller" THEN "update"
                             ELSE "select"]
    /\ UNCHANGED <<regVars, conv, jobVars, sched, checker>>

\* the select of the loop: a tick starts an update; a closed p.stop, or the
\* done context of a RegistryPoller, ends Start, whose deferred call
\* leaves the wait group
PollerSelect ==
    /\ poller.loop = "select"
    /\ \/ poller' = [poller EXCEPT !.loop = "update"]
       \/ /\ poller.closed \/ poller.kind = "RegistryPoller"
          /\ poller' = [poller EXCEPT !.loop = "exited", !.wg = @ - 1]
    /\ UNCHANGED <<regVars, conv, jobVars, sched, checker>>

\* p.update() returns
PollerUpdateReturn ==
    /\ poller.loop = "update"
    /\ poller' = [poller EXCEPT !.loop = "select"]
    /\ UNCHANGED <<regVars, conv, jobVars, sched, checker>>

\* Stop: close(p.stop) panics on a closed channel
PollerStop ==
    /\ poller.stop = "idle"
    /\ poller' = IF poller.closed
                 THEN [poller EXCEPT !.stop = "panic"]
                 ELSE [poller EXCEPT !.closed = TRUE, !.stop = "waiting"]
    /\ UNCHANGED <<regVars, conv, jobVars, sched, checker>>

\* Stop: p.wg.Wait() returns
PollerStopReturn ==
    /\ poller.stop = "waiting"
    /\ poller.wg = 0
    /\ poller' = [poller EXCEPT !.stop = "idle", !.stopped = TRUE]
    /\ UNCHANGED <<regVars, conv, jobVars, sched, checker>>

(***************************************************************************)
(* UpgradeChecker.  Start adds the hourly entry to its cron engine, starts *)
(* the engine and starts one more cycle in a goroutine of its own; a cycle *)
(* runs CheckUpgrades under uc.mu.  Stop stops the engine and waits for    *)
(* the cycles the engine started.                                          *)
(***************************************************************************)
\* UpgradeChecker.Start
CheckerStart ==
    /\ ~checker.started
    /\ checker.stop = "idle"
    /\ checker' = [checker EXCEPT !.started = TRUE, !.cron = TRUE,
                                  !.immediate = "wait"]
    /\ UNCHANGED <<regVars, conv, jobVars, sched, poller>>

\* the running engine finds the hourly entry due and starts uc.checkUpgrades
CheckerTrigger ==
    /\ checker.cron
    /\ checker.hourly = "idle"
    /\ checker.triggers < MaxTriggers
    /\ checker' = [checker EXCEPT !.hourly = "wait", !.triggers = @ + 1]
    /\ UNCHANGED <<regVars, conv, jobVars, sched, poller>>

\* the wrapper of the Scheduler runs the check-upgrades task, which calls
\* CheckUpgrades of the handler's checker
CheckerTaskTrigger ==
    /\ checker.task = "idle"
    /\ checker.triggers < MaxTriggers
    /\ checker' = [checker EXCEPT !.task = "wait", !.triggers = @ + 1]
    /\ UNCHANGED <<regVars, conv, jobVars, sched, poller>>

\* a cycle that enters without taking uc.mu
CheckerCycleLock_NoMutex(src) ==
    /\ checker[src] = "wait"
    /\ checker' = [checker EXCEPT ![src] = "run", !.mu = TRUE, !.pos[src] = 1]
    /\ UNCHANGED <<regVars, conv, jobVars, sched, poller>>
\* CheckUpgrades: uc.mu.Lock(), then the loop starts at the first chain
CheckerCycleLock(src) ==
    /\ checker[src] = "wait"
    /\ ~checker.mu
    /\ checker' = [checker EXCEPT ![src] = "run", !.mu = TRUE, !.pos[src] = 1]
    /\ UNCHANGED <<regVars, conv, jobVars, sched, poller>>

\* lines 67-127: the lookups of one iteration for chain, up to the upgrade
\* record; a chain that is skipped yields no record
CheckerCycleLookups(chain, fe, f) ==
    IF ~ChainExists(chain, fe) THEN [st |-> RegState, res |-> NoResult]
    ELSE LET d1 == DoGetChainInfo(RegState, chain, FALSE, f)
         IN  IF \/ d1.res.kind = "err"
                \/ d1.res.info.Network \notin {"mainnet", "testnet"}
             THEN [st |-> d1.st, res |-> NoResult]
             ELSE DoGetUpgradeInfo(d1.st, chain, FALSE, f, f)

\* lines 67-143: one iteration up to lastCheck, exists := uc.lastChecks[chain]
CheckerCycleRead(src) ==
    /\ checker[src] = "run"
    /\ ~checker.pend[src].has
    /\ checker.pos[src] <= Len(monitoredChains)
    /\ \E fe \in JobFaults, f \in JobFaults :
       \E chain \in {monitoredChains[checker.pos[src]]} :
       \E d \in {CheckerCycleLookups(chain, fe, f)} :
          /\ SetRegState(d.st)
          /\ checker' =
                IF d.res.kind = "upg"
                THEN [checker EXCEPT !.pend[src] =
                        [has |-> TRUE, chain |-> chain, upg |-> d.res.upg,
                         exists |-> chain \in DOMAIN lastChecks,
                         lastCheck |-> IF chain \in DOMAIN lastChecks
                                       THEN lastChecks[chain] ELSE 0]]
                ELSE [checker EXCEPT !.pos[src] = @ + 1]
    /\ UNCHANGED <<up, monitoredChains, readers, writer, pc, call, loc, res,
                   hist, failWin, calls, conv, job, units, sem, failedChains,
                   response, notified, lastChecks, sched, poller>>

\* lines 152-204: the test of the time read, the notification and
\* uc.lastChecks[chain] = upgradeInfo.Time
CheckerCycleNotify(src) ==
    /\ checker[src] = "run"
    /\ checker.pend[src].has
    /\ LET p == checker.pend[src]
       IN  IF ~p.exists \/ p.lastCheck # p.upg.Time
           THEN /\ \E slack \in {"sent", "failed"} :
                      notified' = notified \cup
                         {[chain |-> p.chain,
                           upgrade |-> TypesUpgradeInfo(p.chain, p.upg),
                           slack |-> slack]}
                /\ lastChecks' = (p.chain :> p.upg.Time) @@ lastChecks
                /\ checker' = [checker EXCEPT
                                 !.pend[src] = NoPend, !.pos[src] = @ + 1,
                                 !.log = Append(@, [src |-> src,
                                                    chain |-> p.chain,
                                                    time |-> p.upg.Time])]
           ELSE /\ checker' = [checker EXCEPT !.pend[src] = NoPend,
                                              !.pos[src] = @ + 1]
                /\ UNCHANGED <<notified, lastChecks>>
    /\ UNCHANGED <<regVars, conv, job, units, sem, failedChains, response,
                   sched, poller>>

\* CheckUpgrades returns after the last chain: the deferred uc.mu.Unlock()
CheckerCycleReturn(src) ==
    /\ checker[src] = "run"
    /\ ~checker.pend[src].has
    /\ checker.pos[src] > Len(monitoredChains)
    /\ checker' = [checker EXCEPT
                     ![src] = IF src = "immediate" THEN "done" ELSE "idle",
                     !.mu = FALSE]
    /\ UNCHANGED <<regVars, conv, jobVars, sched, poller>>

\* UpgradeChecker.Stop: ctx := uc.cron.Stop()
CheckerStop ==
    /\ checker.stop = "idle"
    /\ checker' = [checker EXCEPT !.cron = FALSE, !.stop = "draining"]
    /\ UNCHANGED <<regVars, conv, jobVars, sched, poller>>

\* UpgradeChecker.Stop: <-ctx.Done(), the cycles started by the engine have
\* ended
CheckerStopReturn ==
    /\ checker.stop = "draining"
    /\ checker.hourly = "idle"
    /\ checker' = [checker EXCEPT !.stop = "idle", !.stopped = TRUE]
    /\ UNCHANGED <<regVars, conv, jobVars, sched, poller>>

(***************************************************************************)
(* The life cycle of a scheduler with any maxConcurrent, and the life      *)
(* cycles of a poller of either kind and of an upgrade checker.            *)
(***************************************************************************)
LifeInit ==
    /\ RegInit([mainnet |-> {NameHub}, testnet |-> {}, docName |-> <<>>,
                asked |-> NameHub], ApiNames, <<>>)
    /\ conv = NoConv
    /\ JobInit
    /\ \E mc \in 0..MaxTriggers, kind \in {"Poller", "RegistryPoller"} :
          SvcInit(mc, kind)

SchedNext ==
    \/ SchedulerStart
    \/ SchedulerStop
    \/ SchedulerStopReturn
    \/ SchedulerIsRunning
    \/ CronTrigger
    \/ WrapperAdmit
    \/ WrapperTaskReturn

SchedSpec == LifeInit /\ [][SchedNext]_vars

LifeNext ==
    \/ PollerGo
    \/ PollerStart
    \/ PollerSelect
    \/ PollerUpdateReturn
    \/ PollerStop
    \/ PollerStopReturn
    \/ CheckerStart
    \/ CheckerTrigger
    \/ \E src \in {"hourly", "immediate"} : CheckerCycleLock(src)
    \/ \E src \in {"hourly", "immediate"} : CheckerCycleReturn(src)
    \/ CheckerStop
    \/ CheckerStopReturn

LifeSpec == LifeInit /\ [][LifeNext]_vars

(***************************************************************************)
(* Properties of the life cycles.                                          *)
(***************************************************************************)
\* a checker and a scheduler over a registry that monitors two chains
CycleInit ==
    /\ RegInit(JobUpstream, JobNames, MonitoredList(2))
    /\ conv = NoConv
    /\ JobInit
    /\ SvcInit(1, "Poller")

CycleNext ==
    \/ CheckerStart
    \/ CheckerTrigger
    \/ CheckerTaskTrigger
    \/ \E src \in CycleSources : CheckerCycleLock(src)
    \/ \E src \in CycleSources : CheckerCycleRead(src)
    \/ \E src \in CycleSources : CheckerCycleNotify(src)
    \/ \E src \in CycleSources : CheckerCycleReturn(src)

CycleSpec == CycleInit /\ [][CycleNext]_vars

\* C36: at most one CheckUpgrades cycle executes at any time, whichever of
\* the hourly entry, the immediate check of Start and the check-upgrades
\* task started it: a cycle runs only while it holds uc.mu, lastChecks
\* changes only in a step of the running cycle, which decided on the value
\* lastChecks still has, and no upgrade time of a chain is notified twice
C36_OneCycleAtATime ==
    /\ [](/\ Cardinality({src \in CycleSources : checker[src] = "run"}) <= 1
          /\ checker.mu <=> \E src \in CycleSources : checker[src] = "run"
          /\ \A src \in CycleSources :
                checker.pend[src].has
                => /\ checker[src] = "run"
                   /\ checker.pend[src].exists
                         <=> checker.pend[src].chain \in DOMAIN lastChecks
                   /\ checker.pend[src].exists
                         => lastChecks[checker.pend[src].chain]
                               = checker.pend[src].lastCheck
          /\ \A i, j \in 1..Len(checker.log) :
                (/\ i # j
                 /\ checker.log[i].chain = checker.log[j].chain)
                => checker.log[i].time # checker.log[j].time)
    /\ [][lastChecks' # lastChecks
          => \E src \in CycleSources :
                /\ checker[src] = "run"
                /\ checker.pend[src].has
                /\ ~checker'.pend[src].has]_vars

\* the cycle of the hourly entry runs and has notified an upgrade while the
\* immediate check and the check-upgrades task wait for uc.mu
C36_Witness ==
    /\ checker.hourly = "run"
    /\ checker.immediate = "wait"
    /\ checker.task = "wait"
    /\ Len(checker.log) > 0
    /\ checker.log[1].src = "hourly"

\* a new scheduler with maxConcurrent 0 or 1
TableInit ==
    /\ RegInit([mainnet |-> {NameHub}, testnet |-> {}, docName |-> <<>>,
                asked |-> NameHub], ApiNames, <<>>)
    /\ conv = NoConv
    /\ JobInit
    /\ \E mc \in 0..1 : SvcInit(mc, "Poller")

TableNext ==
    \/ \E name \in TaskNames : RegisterTask(name)
    \/ \E jobs \in JobLists : LoadPredefinedJobs(jobs)
    \/ SchedulerStart
    \/ SchedulerStop
    \/ SchedulerStopReturn
    \/ \E e \in sched.entries : EntryWrapper(e)

TableSpec == TableInit /\ [][TableNext]_vars

\* the enabled jobs of a job list, as name and task
EnabledJobs(jobs) ==
    {[Name |-> jobs[i].Name, TaskName |-> jobs[i].TaskName] :
        i \in {k \in 1..Len(jobs) : jobs[k].Enabled}}

\* C25: a LoadPredefinedJobs call returns an error when an enabled job of
\* its input names an unregistered task; otherwise it returns nil and the
\* jobs listed by ListJobs and the jobs the engine has entries for are
\* exactly the enabled jobs of the input; and after a successful call the
\* engine runs only tasks of enabled jobs of that input
C25_LoadReplacesJobTable ==
    /\ [][sched'.loads # sched.loads
          => IF \E j \in EnabledJobs(sched'.loaded) :
                    j.TaskName \notin sched.tasks
             THEN sched'.loadRet = "err"
             ELSE /\ sched'.loadRet = "nil"
                  /\ ListJobs' = EnabledJobs(sched'.loaded)
                  /\ {[Name |-> e.Name, TaskName |-> e.TaskName] :
                         e \in sched'.entries} = EnabledJobs(sched'.loaded)]_vars
    /\ [][(sched.loadRet = "nil" /\ sched'.loads = sched.loads)
          => sched'.ran \ sched.ran \subseteq EnabledJobs(sched.loaded)]_vars

\* C12: Scheduler.Stop on a started scheduler returns only after every job
\* execution in flight when it was called has ended: when it returns no
\* wrapper and no task is running and the scheduler is not started, and
\* none runs while the scheduler stays stopped
C12_StopDrainsJobs ==
    /\ [][(sched.stop = "draining" /\ sched'.stop = "idle") =>
             /\ sched'.admit + sched'.task = 0
             /\ sched'.activeJobs = 0
             /\ ~sched'.started
             /\ ~sched'.cron]_vars
    /\ []((~sched.started /\ sched.stop = "idle") =>
             sched.admit + sched.task = 0)

\* Stop returned after it had found job executions in flight
C12_Witness ==
    /\ sched.stop = "idle"
    /\ sched.ret = "stopped"
    /\ ~sched.started
    /\ sched.atStop > 0
    /\ sched.admit + sched.task = 0

\* C26: with a maxConcurrent that is not negative, activeJobs stays within
\* 0..maxConcurrent and equals the number of executions whose task has not
\* returned: it goes up by one when a wrapper is admitted and down by one
\* when its task returns, and a wrapper that finds a free slot is admitted
C26_ActiveJobsCountsRunningTasks ==
    /\ [](/\ 0 <= sched.activeJobs
          /\ sched.activeJobs <= sched.maxConcurrent
          /\ sched.activeJobs = sched.task)
    /\ [][/\ sched'.task = sched.task + 1
             => sched'.activeJobs = sched.activeJobs + 1
          /\ sched'.task = sched.task - 1
             => sched'.activeJobs = sched.activeJobs - 1
          /\ (/\ sched'.admit = sched.admit - 1
              /\ sched.activeJobs < sched.maxConcurrent)
             => sched'.task = sched.task + 1]_vars

\* every trigger of a scheduler that never skips has been admitted and has
\* returned: the slots are free again
C26_Witness ==
    /\ sched.maxConcurrent = MaxTriggers
    /\ sched.triggers = MaxTriggers
    /\ sched.admit = 0
    /\ sched.task = 0
    /\ sched.activeJobs = 0

\* C37: a trigger runs its task if and only if activeJobs < maxConcurrent
\* when its wrapper tests it; a trigger that is skipped starts no task and
\* leaves activeJobs as it is; a scheduler with maxConcurrent = 0 never
\* runs a task
C37_TriggerRunsIffSlotFree ==
    /\ [][sched'.admit = sched.admit - 1
          => IF sched.activeJobs < sched.maxConcurrent
             THEN /\ sched'.task = sched.task + 1
                  /\ sched'.activeJobs = sched.activeJobs + 1
             ELSE /\ sched'.task = sched.task
                  /\ sched'.activeJobs = sched.activeJobs]_vars
    /\ [][sched'.task > sched.task
          => /\ sched'.admit = sched.admit - 1
             /\ sched.activeJobs < sched.maxConcurrent]_vars
    /\ [](sched.maxConcurrent = 0 => sched.task = 0 /\ sched.activeJobs = 0)

\* every trigger of a started scheduler with maxConcurrent = 0 has been
\* skipped
C37_Witness ==
    /\ sched.maxConcurrent = 0
    /\ sched.started
    /\ sched.triggers = MaxTriggers
    /\ sched.admit = 0
    /\ sched.task = 0

\* C13: once Poller.Stop or RegistryPoller.Stop has returned, the loop of a
\* Start that was called before it has exited and no update cycle runs
C13_StopWaitsForLoop ==
    poller.stopped => poller.loop \in {"none", "exited"}

\* C14: a second Stop completes normally and leaves the component stopped:
\* Stop of a poller never panics, and Stop of a scheduler that is not
\* started returns leaving it not started
C14_StopIsIdempotent ==
    /\ poller.stop # "panic"
    /\ (sched.ret = "stopped" /\ sched.stop = "idle") => ~sched.started

\* C15: once UpgradeChecker.Stop has returned no CheckUpgrades cycle
\* executes, neither one started by the hourly entry nor the one Start
\* launched
C15_StopDrainsCycles ==
    (checker.stopped /\ checker.stop = "idle") =>
        /\ checker.hourly = "idle"
        /\ checker.immediate \in {"none", "done"}

\* C16: IsRunning is false on a new scheduler, true after a successful Start
\* and false after Stop; Start on a started scheduler returns an error and
\* leaves it started; Stop on a scheduler that is not started changes
\* nothing
C16_RunningFollowsStartStop ==
    /\ [](sched.ret = "" => ~sched.started)
    /\ [](sched.ret = "true" => sched.started)
    /\ [](sched.ret = "false" => ~sched.started)
    /\ [](sched.ret = "nil" => sched.started)
    /\ [](sched.ret = "err" => sched.started)
    /\ []((sched.ret = "stopped" /\ sched.stop = "idle") => ~sched.started)
    /\ [][(sched'.ret = "nil" /\ sched.ret # "nil") => ~sched.started]_vars
    /\ [][(sched'.ret = "err" /\ sched.ret # "err") =>
             sched' = [sched EXCEPT !.ret = "err"]]_vars
    /\ [][(sched'.ret = "stopped" /\ ~sched.started /\ sched.stop = "idle") =>
             sched' = [sched EXCEPT !.ret = "stopped"]]_vars

\* Start was refused on a started scheduler with a job in flight
C16_Witness ==
    /\ sched.ret = "err"
    /\ sched.started
    /\ sched.task > 0

=============================================================================
